---- MODULE Spec2Model ----
(***************************************************************************)
(* Build scheduling and orchestration of the Bitten build master.          *)
(*                                                                         *)
(*   Spec         the build queue of src/bitten/queue.py (populate,        *)
(*                get_build_for_slave, reset_orphaned_builds) together     *)
(*                with the administration operations of src/bitten/admin.py*)
(*                and the ingestion of build results.                      *)
(*   SpecMatch    match_slave as a function of platform rules and slave    *)
(*                properties.                                              *)
(*   SpecSession  the orchestration session of the BEEP master             *)
(*                (src/sandbox/http/bitten/master.py) talking to the       *)
(*                slave of src/trunk/bitten/slave.py.                      *)
(***************************************************************************)
EXTENDS Integers, Sequences, FiniteSets, TLC

VARIABLES
    opts,       \* BuildQueue.__init__: build_all, stabilize_wait, timeout
    configs,    \* bitten_config rows: name -> [active, min_rev, max_rev]
    platforms,  \* bitten_platform rows (with their rules)
    repos,      \* the history of each configuration's path, newest first
    builds,     \* bitten_build rows
    steps,      \* bitten_step rows, in insertion order
    nextId,     \* the id the next inserted build gets
    now,        \* int(time.time())
    pop,        \* the populate() calls in progress
    adminOps,   \* number of administration requests served
    handlers,   \* the orchestration handler of each slave, master side
    slaves,     \* the orchestration session of each slave, slave side
    chan,       \* the replies of each slave on their way to the master
    alloc,      \* the get_build_for_slave() calls in progress, by slave
    dispatch,   \* the queues of the master and its dispatch round in progress
    last        \* the operation that completed last, with its result

vars == <<opts, configs, platforms, repos, builds, steps, nextId, now, pop,
          adminOps, handlers, slaves, chan, alloc, dispatch, last>>

-----------------------------------------------------------------------------
(* Bounds of the model *)

MaxRev == 3
MaxNow == 1
MaxBuildId == 3
MaxAdminOps == 1
MaxSteps == 2
Timeout == 1
StabilizeWait == 1

-----------------------------------------------------------------------------
(* Values *)

None == "None"
NoBuild == 0

PENDING == "P"
IN_PROGRESS == "I"
SUCCESS == "S"
FAILURE == "F"

ConfigOrder == <<"C", "D">>
ConfigNames == {ConfigOrder[i] : i \in DOMAIN ConfigOrder}
ConfigPath(c) == IF c = "C" THEN "/trunk" ELSE "/branch"
PlatformIds == {1, 2}
StepNames == {"compile"}

\* Python dicts are sets of <<key, value>> pairs with one pair per key.
HasKey(d, k) == \E kv \in d : kv[1] = k
DictGet(d, k) == (CHOOSE kv \in d : kv[1] = k)[2]
DictUpdate(d, e) == {kv \in d : ~HasKey(e, kv[1])} \cup e

\* The slaves that ask for builds, with the properties they declare.
SlaveProps(name) ==
    IF name = "s1" THEN {<<"family", <<"A">>>>} ELSE {<<"family", <<"b">>>>}
SlaveNames == {"s1", "s2"}

\* The target platforms the administrator configured.
DefaultPlatforms ==
    { [id |-> 1, config |-> "C", rules |-> << <<"family", <<"a">>>> >>],
      [id |-> 2, config |-> "D", rules |-> << <<"family", <<"b">>>> >>] }

\* Histories (newest first) of a path, with the date of each changeset: the
\* newest revision is committed at time 0. In the first every revision changed
\* the path, a second apart; in the second the oldest revision is the source
\* of a copy and revision 2 has an empty tree; in the third revisions 1 and 2
\* were committed within the same second.
PlainHistory(c) ==
    [i \in 1..MaxRev |-> [path |-> ConfigPath(c), rev |-> MaxRev + 1 - i,
                          empty |-> FALSE, date |-> 1 - i]]
CopiedHistory(c) ==
    [i \in 1..MaxRev |->
        [path |-> IF i = MaxRev THEN "/old" ELSE ConfigPath(c),
         rev |-> MaxRev + 1 - i,
         empty |-> (MaxRev + 1 - i = 2),
         date |-> 1 - i]]
SameSecondHistory(c) ==
    [i \in 1..MaxRev |->
        [path |-> ConfigPath(c), rev |-> MaxRev + 1 - i, empty |-> FALSE,
         date |-> IF i = MaxRev - 1 THEN 1 - MaxRev ELSE 1 - i]]

\* repos.get_changeset(rev).date
RevTime(rev) ==
    LET changesets == UNION {{repos[c][i] : i \in DOMAIN repos[c]} :
                                c \in DOMAIN repos}
    IN (CHOOSE e \in changesets : e.rev = rev).date

rev_older_than(rev1, rev2) == rev1 < rev2
normalize_path(path) == path

-----------------------------------------------------------------------------
(* The store *)

Build(config, platform, rev, rev_time) ==
    [id |-> NoBuild, config |-> config, rev |-> rev, rev_time |-> rev_time,
     platform |-> platform, slave |-> None, slave_info |-> {},
     status |-> PENDING, started |-> 0, stopped |-> 0, last_activity |-> 0]

BuildById(bs, id) == CHOOSE b \in bs : b.id = id
HasBuild(bs, id) == \E b \in bs : b.id = id

\* Build.select(env, config, rev, platform)
BuildSelect(bs, config, rev, platform) ==
    {b \in bs : b.config = config /\ b.rev = rev /\ b.platform = platform}

\* Build.select(env, config=, min_rev_time=, platform=)
BuildSelectNewer(bs, config, min_rev_time, platform) ==
    {b \in bs : b.config = config /\ b.platform = platform
                /\ b.rev_time >= min_rev_time}

\* A set of builds as the list a select returns, in ascending id order.
RECURSIVE OrderById(_)
OrderById(bs) ==
    IF bs = {} THEN << >>
    ELSE LET first == CHOOSE b \in bs : \A o \in bs : b.id <= o.id
         IN <<first>> \o OrderById(bs \ {first})

\* Build.select(env, status=)
BuildSelectStatus(bs, status) == OrderById({b \in bs : b.status = status})

\* BuildConfig.fetch(env, name) returns a row, not None.
HasConfig(name) == name \in DOMAIN configs

\* BuildConfig.select(env): the active configurations, by name.
BuildConfigSelect ==
    SelectSeq(ConfigOrder, LAMBDA c : HasConfig(c) /\ configs[c].active)

\* TargetPlatform.select(env, config): the platforms of a configuration.
TargetPlatformSelect(config) == {p \in platforms : p.config = config}
TargetPlatformFetch(id) == {p \in platforms : p.id = id}

\* The unique index on (config, rev, platform) rejects a second row.
InsertRejectedNoIndex(bs, b) == FALSE
InsertRejected(bs, b) == BuildSelect(bs, b.config, b.rev, b.platform) # {}

-----------------------------------------------------------------------------
(* match_slave *)

\* re.I: letters compare without regard to case.
Lower(ch) == IF ch = "A" THEN "a" ELSE IF ch = "B" THEN "b" ELSE ch

\* re.compile raises re.error for a pattern with an unbalanced parenthesis.
PatternCompiles(pattern) == \A i \in DOMAIN pattern : pattern[i] # "("

\* re.match(pattern, value, re.I): the pattern (literals and ".") matches a
\* prefix of the value.
ReMatchCaseSensitive(pattern, value) ==
    /\ Len(pattern) <= Len(value)
    /\ \A i \in DOMAIN pattern : pattern[i] = "." \/ pattern[i] = value[i]
ReMatch(pattern, value) ==
    /\ Len(pattern) <= Len(value)
    /\ \A i \in DOMAIN pattern :
          pattern[i] = "." \/ Lower(pattern[i]) = Lower(value[i])

\* ifilter(None, platform.rules): the rules that are true as Python values; a
\* rule is a (propname, pattern) tuple, and a tuple is false only when empty.
FilterRules(rules) == SelectSeq(rules, LAMBDA rule : Len(rule) # 0)

\* One pass of the rule loop: FALSE when the property is missing or empty,
\* when the pattern does not compile, or when it does not match.
RuleMatches(rule, properties) ==
    LET propname == rule[1]
        pattern == rule[2]
    IN  /\ HasKey(properties, propname)
        /\ DictGet(properties, propname) # << >>
        /\ PatternCompiles(pattern)
        /\ ReMatch(pattern, DictGet(properties, propname))

PlatformMatches(platform, properties) ==
    LET rules == FilterRules(platform.rules)
    IN  \A i \in DOMAIN rules : RuleMatches(rules[i], properties)

\* The rule loop reaches a pattern that does not compile: the rules before it
\* are satisfied and the property of the rule has a value.
RECURSIVE ReachesBadPattern(_, _, _)
ReachesBadPattern(rules, i, properties) ==
    IF i > Len(rules) THEN FALSE
    ELSE IF RuleMatches(rules[i], properties)
         THEN ReachesBadPattern(rules, i + 1, properties)
    ELSE /\ HasKey(properties, rules[i][1])
         /\ DictGet(properties, rules[i][1]) # << >>
         /\ ~PatternCompiles(rules[i][2])

\* match_slave without the except clause: re.error leaves the call, and the
\* caller has no platform.
MatchSlaveUncaught(name, properties) ==
    IF \E p \in platforms :
          /\ \E i \in DOMAIN BuildConfigSelect : BuildConfigSelect[i] = p.config
          /\ ReachesBadPattern(FilterRules(p.rules), 1, properties)
    THEN {}
    ELSE {p \in platforms :
            /\ \E i \in DOMAIN BuildConfigSelect : BuildConfigSelect[i] = p.config
            /\ PlatformMatches(p, properties)}

\* match_slave(name, properties): the platforms of the active configurations
\* that the slave matches.
MatchSlave(name, properties) ==
    {p \in platforms :
        /\ \E i \in DOMAIN BuildConfigSelect : BuildConfigSelect[i] = p.config
        /\ PlatformMatches(p, properties)}

-----------------------------------------------------------------------------
(* collect_changes *)

\* The history loop of collect_changes: the value of the loop variable rev
\* when the loop is left, by a break or at the end of the history. The loop
\* body ends before the platform loop, which runs once, after the history loop.
RECURSIVE HistoryLoop(_, _, _, _)
HistoryLoop(c, history, i, rev) ==
    IF i > Len(history) THEN rev
    ELSE LET e == history[i] IN
         IF e.path # normalize_path(ConfigPath(c)) THEN e.rev
         ELSE IF configs[c].min_rev # 0
                 /\ rev_older_than(e.rev, configs[c].min_rev) THEN e.rev
         ELSE IF configs[c].max_rev # 0
                 /\ rev_older_than(configs[c].max_rev, e.rev)
              THEN HistoryLoop(c, history, i + 1, e.rev)
         ELSE IF e.empty THEN HistoryLoop(c, history, i + 1, e.rev)
         ELSE HistoryLoop(c, history, i + 1, e.rev)

\* The (platform, rev, build) tuples collect_changes yields, in order.
RECURSIVE PlatformLoop(_, _, _, _)
PlatformLoop(bs, c, rev, ps) ==
    IF ps = {} THEN << >>
    ELSE LET p == CHOOSE q \in ps : \A o \in ps : q.id <= o.id
             found == BuildSelect(bs, c, rev, p.id)
             build == IF found # {} THEN (CHOOSE b \in found : TRUE).id
                      ELSE NoBuild
         IN <<[platform |-> p.id, rev |-> rev, build |-> build]>>
            \o PlatformLoop(bs, c, rev, ps \ {p})

\* repos.get_node(repos_path) returns a node: the path of the configuration
\* is in the repository.
HasNode(c) == c \in DOMAIN repos

CollectChanges(bs, c) ==
    IF ~HasNode(c) THEN << >>
    ELSE PlatformLoop(bs, c, HistoryLoop(c, repos[c], 1, 0),
                      TargetPlatformSelect(c))

-----------------------------------------------------------------------------
(* populate *)

\* The loop of populate over the tuples of one configuration: the builds to
\* insert.
RECURSIVE PopulateLoopWaitsLonger(_, _, _, _)
PopulateLoopWaitsLonger(c, tuples, i, seen) ==
    IF i > Len(tuples) THEN << >>
    ELSE LET t == tuples[i] IN
         IF ~opts.build_all /\ t.platform \in seen THEN << >>
         ELSE LET rest == PopulateLoopWaitsLonger(c, tuples, i + 1,
                                                  seen \cup {t.platform})
                  rev_time == RevTime(t.rev)
                  age == now - rev_time
              IN IF t.build # NoBuild THEN rest
                 ELSE IF opts.stabilize_wait # 0 /\ age <= opts.stabilize_wait
                      THEN rest
                 ELSE <<Build(c, t.platform, t.rev, rev_time)>> \o rest

RECURSIVE PopulateLoop(_, _, _, _)
PopulateLoop(c, tuples, i, seen) ==
    IF i > Len(tuples) THEN << >>
    ELSE LET t == tuples[i] IN
         IF ~opts.build_all /\ t.platform \in seen THEN << >>
         ELSE LET rest == PopulateLoop(c, tuples, i + 1, seen \cup {t.platform})
                  rev_time == RevTime(t.rev)
                  age == now - rev_time
              IN IF t.build # NoBuild THEN rest
                 ELSE IF opts.stabilize_wait # 0 /\ age < opts.stabilize_wait
                      THEN rest
                 ELSE <<Build(c, t.platform, t.rev, rev_time)>> \o rest

\* The loop over the configurations left at the first configuration whose
\* path is not in the repository.
RECURSIVE PopulateConfigsStopsAtError(_, _, _)
PopulateConfigsStopsAtError(bs, cs, i) ==
    IF i > Len(cs) THEN << >>
    ELSE IF ~HasNode(cs[i]) THEN << >>
    ELSE PopulateLoop(cs[i], CollectChanges(bs, cs[i]), 1, {})
         \o PopulateConfigsStopsAtError(bs, cs, i + 1)

RECURSIVE PopulateConfigs(_, _, _)
PopulateConfigs(bs, cs, i) ==
    IF i > Len(cs) THEN << >>
    ELSE PopulateLoop(cs[i], CollectChanges(bs, cs[i]), 1, {})
         \o PopulateConfigs(bs, cs, i + 1)

\* The insert loop of populate(): the rows in the store after it, and whether
\* an insert raised (which ends the loop).
RECURSIVE InsertLoop(_, _, _)
InsertLoop(bs, todo, id) ==
    IF todo = << >> THEN [builds |-> bs, nextId |-> id, ret |-> "ok"]
    ELSE IF InsertRejected(bs, Head(todo))
         THEN [builds |-> bs, nextId |-> id, ret |-> "raise"]
         ELSE InsertLoop(bs \cup {[Head(todo) EXCEPT !.id = id]}, Tail(todo),
                         id + 1)

Range(list) == {list[i] : i \in DOMAIN list}

\* populate(), run from its first line to its last without another call of
\* the queue in between.
Populate ==
    /\ \A p \in DOMAIN pop : pop[p].pc = "idle"
    /\ LET todo == PopulateConfigs(builds, BuildConfigSelect, 1)
           r == InsertLoop(builds, todo, nextId)
           lacking == UNION {
               {[config |-> BuildConfigSelect[i], platform |-> t.platform,
                 rev |-> t.rev] :
                    t \in {u \in Range(CollectChanges(builds,
                                                      BuildConfigSelect[i])) :
                              u.build = NoBuild}} :
               i \in DOMAIN BuildConfigSelect}
       IN /\ r.nextId <= MaxBuildId + 1
          /\ builds' = r.builds
          /\ nextId' = r.nextId
          /\ last' = [op |-> "populate", by |-> 0, ret |-> r.ret,
                      pre |-> builds,
                      changes |-> [c \in ConfigNames |->
                          IF HasConfig(c) /\ configs[c].active
                          THEN CollectChanges(builds, c)
                          ELSE << >>],
                      second |-> \/ last.op = "populate"
                                 \/ /\ last.op = "get_build"
                                    /\ last.after_populate,
                      delayed |-> {t \in lacking :
                          BuildSelect(r.builds, t.config, t.rev,
                                      t.platform) = {}}]
    /\ UNCHANGED <<handlers, slaves, chan, alloc, dispatch>>
    /\ UNCHANGED <<opts, configs, platforms, repos, steps, now, pop, adminOps>>

Populators == {1, 2}

\* populate(), first half: the loop over the configurations that collects the
\* builds to insert. Calls are numbered as they overlap: call p + 1 starts
\* while call p runs.
PopulateCollect(p) ==
    /\ pop[p].pc = "idle"
    /\ IF p = 1 THEN TRUE ELSE pop[p - 1].pc # "idle"
    /\ LET todo == PopulateConfigs(builds, BuildConfigSelect, 1) IN
       IF todo = << >>
       THEN /\ pop' = pop
            /\ last' = [op |-> "populate", by |-> p, ret |-> "ok",
                        pre |-> builds]
       ELSE /\ pop' = [pop EXCEPT ![p] = [pc |-> "insert", todo |-> todo,
                                          pre |-> builds]]
            /\ last' = [op |-> "collect", by |-> p]
    /\ UNCHANGED <<handlers, slaves, chan, alloc, dispatch>>
    /\ UNCHANGED <<opts, configs, platforms, repos, builds, steps, nextId,
                   now, adminOps>>

\* populate(), second half: one pass of the insert loop. An insert the unique
\* index rejects raises, and the exception leaves populate().
PopulateInsert(p) ==
    /\ pop[p].pc = "insert"
    /\ LET b == Head(pop[p].todo)
           rest == Tail(pop[p].todo)
       IN IF InsertRejected(builds, b)
          THEN /\ pop' = [pop EXCEPT ![p] = [pc |-> "idle", todo |-> << >>,
                                             pre |-> {}]]
               /\ last' = [op |-> "populate", by |-> p, ret |-> "raise",
                           pre |-> pop[p].pre, todo |-> rest]
               /\ UNCHANGED <<builds, nextId>>
          ELSE /\ nextId <= MaxBuildId
               /\ builds' = builds \cup {[b EXCEPT !.id = nextId]}
               /\ nextId' = nextId + 1
               /\ IF rest = << >>
                  THEN /\ pop' = [pop EXCEPT ![p] =
                                    [pc |-> "idle", todo |-> << >>,
                                     pre |-> {}]]
                       /\ last' = [op |-> "populate", by |-> p, ret |-> "ok",
                                   pre |-> pop[p].pre]
                  ELSE /\ pop' = [pop EXCEPT ![p].todo = rest]
                       /\ last' = [op |-> "insert", by |-> p]
    /\ UNCHANGED <<handlers, slaves, chan, alloc, dispatch>>
    /\ UNCHANGED <<opts, configs, platforms, repos, steps, now, adminOps>>

-----------------------------------------------------------------------------
(* reset_orphaned_builds *)

\* The test of the loop: the build has reached the timeout.
OrphanedLate(b, t) == t - b.last_activity > opts.timeout
OrphanedSinceStart(b, t) == ~(t - b.started < opts.timeout)
Orphaned(b, t) == ~(t - b.last_activity < opts.timeout)

ResetBuildKeepsSlave(b) ==
    [b EXCEPT !.status = PENDING, !.slave_info = {}, !.started = 0,
              !.stopped = 0, !.last_activity = 0]
ResetBuild(b) ==
    [b EXCEPT !.status = PENDING, !.slave = None, !.slave_info = {},
              !.started = 0, !.stopped = 0, !.last_activity = 0]

\* The builds and steps reset_orphaned_builds() leaves, called at time t.
ResetOrphanedKeepsSteps(bs, st, t) ==
    IF opts.timeout = 0 THEN [builds |-> bs, steps |-> st]
    ELSE [builds |-> {IF b.status = IN_PROGRESS /\ Orphaned(b, t)
                      THEN ResetBuild(b) ELSE b : b \in bs},
          steps |-> st]
ResetOrphanedWithoutTimeoutTest(bs, st, t) ==
    LET orphans == {b \in bs : b.status = IN_PROGRESS /\ Orphaned(b, t)}
    IN [builds |-> {IF b \in orphans THEN ResetBuild(b) ELSE b : b \in bs},
        steps |-> SelectSeq(st, LAMBDA s :
                      \A b \in orphans : s.build # b.id)]
ResetOrphaned(bs, st, t) ==
    IF opts.timeout = 0 THEN [builds |-> bs, steps |-> st]
    ELSE LET orphans == {b \in bs : b.status = IN_PROGRESS /\ Orphaned(b, t)}
         IN [builds |-> {IF b \in orphans THEN ResetBuild(b) ELSE b : b \in bs},
             steps |-> SelectSeq(st, LAMBDA s :
                           \A b \in orphans : s.build # b.id)]

ResetOrphanedBuilds ==
    /\ LET r == ResetOrphaned(builds, steps, now) IN
       /\ builds' = r.builds
       /\ steps' = r.steps
    /\ last' = [op |-> "reset",
                orphans |-> {b.id : b \in {o \in builds :
                               o.status = IN_PROGRESS /\ o \notin builds'}},
                deleted |-> Len(steps) - Len(steps')]
    /\ UNCHANGED <<handlers, slaves, chan, alloc, dispatch>>
    /\ UNCHANGED <<opts, configs, platforms, repos, nextId, now, pop, adminOps>>

-----------------------------------------------------------------------------
(* should_delete_build and get_build_for_slave *)

\* should_delete_build without the test of the configuration being active.
ShouldDeleteBuildIgnoresActive(bs, build) ==
    LET config == configs[build.config]
        platform == TargetPlatformFetch(build.platform)
    IN  \/ platform = {}
        \/ (config.min_rev # 0 /\ rev_older_than(build.rev, config.min_rev))
        \/ (config.max_rev # 0 /\ rev_older_than(config.max_rev, build.rev))
        \/ (~opts.build_all
            /\ Cardinality(BuildSelectNewer(bs, build.config, build.rev_time,
                                            build.platform)) > 1)

ShouldDeleteBuild(bs, build) ==
    LET config == configs[build.config]
        platform == TargetPlatformFetch(build.platform)
    IN  \/ platform = {}
        \/ ~(HasConfig(build.config) /\ config.active)
        \/ (config.min_rev # 0 /\ rev_older_than(build.rev, config.min_rev))
        \/ (config.max_rev # 0 /\ rev_older_than(config.max_rev, build.rev))
        \/ (~opts.build_all
            /\ Cardinality(BuildSelectNewer(bs, build.config, build.rev_time,
                                            build.platform)) > 1)

\* The loop over the pending builds: the build found (or NoBuild), the builds
\* scheduled for deletion and the builds passed over.
\* The loop handing out the matching build of the youngest changeset instead
\* of the first one.
RECURSIVE ScanPendingNewestFirst(_, _, _, _)
ScanPendingNewestFirst(bs, pending, i, platformIds) ==
    IF i > Len(pending)
    THEN [found |-> NoBuild, to_delete |-> {}, skipped |-> {}]
    ELSE LET r == ScanPendingNewestFirst(bs, pending, i + 1, platformIds) IN
         IF ShouldDeleteBuild(bs, pending[i])
         THEN [r EXCEPT !.to_delete = @ \cup {pending[i].id}]
         ELSE IF pending[i].platform \notin platformIds
         THEN [r EXCEPT !.skipped = @ \cup {pending[i]}]
         ELSE IF r.found # NoBuild
                 /\ BuildById(bs, r.found).rev_time > pending[i].rev_time
         THEN r
         ELSE [r EXCEPT !.found = pending[i].id]

RECURSIVE ScanPendingAnyPlatform(_, _, _, _)
ScanPendingAnyPlatform(bs, pending, i, platformIds) ==
    IF i > Len(pending)
    THEN [found |-> NoBuild, to_delete |-> {}, skipped |-> {}]
    ELSE IF ShouldDeleteBuild(bs, pending[i])
         THEN LET r == ScanPendingAnyPlatform(bs, pending, i + 1, platformIds)
              IN [r EXCEPT !.to_delete = @ \cup {pending[i].id}]
         ELSE [found |-> pending[i].id, to_delete |-> {}, skipped |-> {}]

RECURSIVE ScanPending(_, _, _, _)
ScanPending(bs, pending, i, platformIds) ==
    IF i > Len(pending)
    THEN [found |-> NoBuild, to_delete |-> {}, skipped |-> {}]
    ELSE IF ShouldDeleteBuild(bs, pending[i])
         THEN LET r == ScanPending(bs, pending, i + 1, platformIds)
              IN [r EXCEPT !.to_delete = @ \cup {pending[i].id}]
         ELSE IF pending[i].platform \in platformIds
         THEN [found |-> pending[i].id, to_delete |-> {}, skipped |-> {}]
         ELSE LET r == ScanPending(bs, pending, i + 1, platformIds)
              IN [r EXCEPT !.skipped = @ \cup {pending[i]}]

\* The loop over the pending builds is left by an exception: it reads the path
\* of the configuration of each build it visits, and the configuration of one
\* of them is gone.
RECURSIVE ScanRaises(_, _, _, _)
ScanRaises(bs, pending, i, platformIds) ==
    IF i > Len(pending) THEN FALSE
    ELSE IF ~HasConfig(pending[i].config) THEN TRUE
    ELSE IF ShouldDeleteBuild(bs, pending[i])
         THEN ScanRaises(bs, pending, i + 1, platformIds)
    ELSE IF pending[i].platform \in platformIds THEN FALSE
    ELSE ScanRaises(bs, pending, i + 1, platformIds)

\* The builds left by the deletion loop; the trunk queue returned before it
\* when no build was found.
DeleteBuildsUnlessNone(bs, scan) ==
    IF scan.found = NoBuild THEN bs
    ELSE {b \in bs : b.id \notin scan.to_delete}
DeleteBuilds(bs, scan) == {b \in bs : b.id \notin scan.to_delete}

\* The update of the build found.
AllocateKeepsPending(b, name, properties) ==
    [b EXCEPT !.slave = name, !.slave_info = DictUpdate(@, properties)]
AllocateWithoutInfo(b, name, properties) ==
    [b EXCEPT !.slave = name, !.status = IN_PROGRESS]
Allocate(b, name, properties) ==
    [b EXCEPT !.slave = name,
              !.slave_info = DictUpdate(@, properties),
              !.status = IN_PROGRESS]

\* The answer to POST /builds: 201 and the location of the build that
\* get_build_for_slave returned, or 204 when it returned none.
CreateBuildResponse(build) ==
    IF build # NoBuild
    THEN [status |-> 201, location |-> build, body |-> "Build pending"]
    ELSE [status |-> 204, location |-> NoBuild, body |-> "No pending builds"]

\* The request whose handler an exception left is answered with an error.
ErrorResponse ==
    [status |-> 500, location |-> NoBuild, body |-> "Internal Server Error"]

GetBuildForSlave(name, properties) ==
    /\ LET r == ResetOrphaned(builds, steps, now)
           platformIds == {p.id : p \in MatchSlave(name, properties)}
           pending == BuildSelectStatus(r.builds, PENDING)
       IN IF ScanRaises(r.builds, pending, 1, platformIds)
          THEN /\ builds' = r.builds
               /\ steps' = r.steps
               /\ last' = [op |-> "get_build", name |-> name,
                           properties |-> properties, ret |-> NoBuild,
                           to_delete |-> {}, skipped |-> {},
                           response |-> ErrorResponse,
                           after_populate |-> last.op = "populate",
                           raised |-> TRUE]
          ELSE LET scan == ScanPending(r.builds, pending, 1, platformIds)
                   kept == DeleteBuilds(r.builds, scan)
               IN /\ builds' = {IF b.id = scan.found
                                THEN Allocate(b, name, properties)
                                ELSE b : b \in kept}
                  /\ steps' = SelectSeq(r.steps, LAMBDA s :
                                            s.build \notin scan.to_delete)
                  /\ last' = [op |-> "get_build", name |-> name,
                              properties |-> properties, ret |-> scan.found,
                              to_delete |-> scan.to_delete,
                              skipped |-> scan.skipped,
                              response |-> CreateBuildResponse(scan.found),
                              after_populate |-> last.op = "populate",
                              raised |-> FALSE]
    /\ UNCHANGED <<handlers, slaves, chan, alloc, dispatch>>
    /\ UNCHANGED <<opts, configs, platforms, repos, nextId, now, pop, adminOps>>

-----------------------------------------------------------------------------
(* Administration *)

\* _activate_configs: the configurations named in the request are active, the
\* others are not.
ActivateConfigs(active) ==
    /\ adminOps < MaxAdminOps
    /\ configs' = [c \in ConfigNames |-> [configs[c] EXCEPT !.active = c \in active]]
    /\ configs' # configs
    /\ adminOps' = adminOps + 1
    /\ last' = [op |-> "activate"]
    /\ UNCHANGED <<handlers, slaves, chan, alloc, dispatch>>
    /\ UNCHANGED <<opts, platforms, repos, builds, steps, nextId, now, pop>>

\* _update_config: a new revision range for a configuration.
UpdateConfig(c, min_rev, max_rev) ==
    /\ adminOps < MaxAdminOps
    /\ configs' = [configs EXCEPT ![c].min_rev = min_rev, ![c].max_rev = max_rev]
    /\ configs' # configs
    /\ adminOps' = adminOps + 1
    /\ last' = [op |-> "update_config"]
    /\ UNCHANGED <<handlers, slaves, chan, alloc, dispatch>>
    /\ UNCHANGED <<opts, platforms, repos, builds, steps, nextId, now, pop>>

\* BuildConfig.delete: the row of the configuration goes, and with it the
\* platforms, the builds and the steps the store holds for it at that moment.
BuildConfigDelete(name) ==
    LET gone == {b.id : b \in {o \in builds : o.config = name}}
    IN [configs |-> [c \in DOMAIN configs \ {name} |-> configs[c]],
        platforms |-> {p \in platforms : p.config # name},
        builds |-> {b \in builds : b.config # name},
        steps |-> SelectSeq(steps, LAMBDA st : st.build \notin gone)]

\* _remove_configs
RemoveConfigs(name) ==
    /\ adminOps < MaxAdminOps
    /\ HasConfig(name)
    /\ LET d == BuildConfigDelete(name) IN
       /\ configs' = d.configs
       /\ platforms' = d.platforms
       /\ builds' = d.builds
       /\ steps' = d.steps
    /\ adminOps' = adminOps + 1
    /\ last' = [op |-> "remove_config", name |-> name]
    /\ UNCHANGED <<handlers, slaves, chan, alloc, dispatch>>
    /\ UNCHANGED <<opts, repos, nextId, now, pop>>

\* _remove_platforms: the platform row is deleted, its builds stay.
RemovePlatforms(id) ==
    /\ adminOps < MaxAdminOps
    /\ TargetPlatformFetch(id) # {}
    /\ platforms' = platforms \ TargetPlatformFetch(id)
    /\ adminOps' = adminOps + 1
    /\ last' = [op |-> "remove_platform"]
    /\ UNCHANGED <<handlers, slaves, chan, alloc, dispatch>>
    /\ UNCHANGED <<opts, configs, repos, builds, steps, nextId, now, pop>>

-----------------------------------------------------------------------------
(* Build results arriving for a build the store shows in progress *)

StepStatusAlwaysSuccess(result) == SUCCESS
StepStatus(result) == IF result = "failure" THEN FAILURE ELSE SUCCESS

StepReceived(id, name, result) ==
    /\ HasBuild(builds, id)
    /\ LET b == BuildById(builds, id) IN
       /\ b.status = IN_PROGRESS
       /\ Len(steps) < MaxSteps
       /\ \A i \in DOMAIN steps : ~(steps[i].build = id /\ steps[i].name = name)
       /\ steps' = Append(steps, [build |-> id, name |-> name,
                                  status |-> StepStatus(result),
                                  started |-> now, stopped |-> now])
       /\ builds' = (builds \ {b}) \cup {[b EXCEPT !.last_activity = now]}
    /\ last' = [op |-> "step", build |-> id]
    /\ UNCHANGED <<handlers, slaves, chan, alloc, dispatch>>
    /\ UNCHANGED <<opts, configs, platforms, repos, nextId, now, pop, adminOps>>

BuildCompleted(id, result) ==
    /\ HasBuild(builds, id)
    /\ LET b == BuildById(builds, id) IN
       /\ b.status = IN_PROGRESS
       /\ builds' = (builds \ {b}) \cup
                      {[b EXCEPT !.stopped = now, !.status = StepStatus(result)]}
    /\ last' = [op |-> "completed", build |-> id]
    /\ UNCHANGED <<handlers, slaves, chan, alloc, dispatch>>
    /\ UNCHANGED <<opts, configs, platforms, repos, steps, nextId, now, pop,
                   adminOps>>

\* The clock.
Tick ==
    /\ now < MaxNow
    /\ now' = now + 1
    /\ last' = [op |-> "tick"]
    /\ UNCHANGED <<handlers, slaves, chan, alloc, dispatch>>
    /\ UNCHANGED <<opts, configs, platforms, repos, builds, steps, nextId, pop,
                   adminOps>>

-----------------------------------------------------------------------------
(* The build queue *)

\* The installations: the way the queue is configured, and the repository.
Installations ==
    { [opts |-> [build_all |-> FALSE, stabilize_wait |-> 0,
                 timeout |-> Timeout],
       repos |-> [c \in ConfigNames |-> PlainHistory(c)]],
      [opts |-> [build_all |-> FALSE, stabilize_wait |-> StabilizeWait,
                 timeout |-> 0],
       repos |-> [c \in ConfigNames |-> IF c = "C" THEN CopiedHistory(c)
                                        ELSE PlainHistory(c)]],
      [opts |-> [build_all |-> TRUE, stabilize_wait |-> 0,
                 timeout |-> Timeout],
       repos |-> [c \in ConfigNames |-> IF c = "C" THEN CopiedHistory(c)
                                        ELSE PlainHistory(c)]] }

\* The revision ranges the administrator sets.
RangeChoices == {<<0, 0>>, <<2, 0>>, <<0, 2>>, <<2, 2>>}

IdlePopulate == [pc |-> "idle", todo |-> << >>, pre |-> {}]

\* No get_build_for_slave() call in progress, and no dispatch round.
NoCall == [pc |-> "idle", found |-> Build(None, 0, 0, 0), to_delete |-> {}]
NoRound ==
    [queues |-> << >>, copy |-> << >>, idx |-> 0, slaves |-> {},
     available |-> {}]

\* No slave connected: the handler and the session of a slave that has not
\* registered.
NoHandler ==
    [registered |-> FALSE, building |-> FALSE, replies |-> "none",
     build |-> Build(None, 0, 0, 0), timestamp_delta |-> 0, initiated |-> 0,
     superseded |-> FALSE]
NoXml == [attr |-> {}, steps |-> << >>]
NoSession ==
    [pc |-> "connect", inbox |-> [type |-> "none", xml |-> NoXml],
     build_xml |-> NoXml, dry_run |-> FALSE,
     clock |-> 0, i |-> 0, started |-> 0, failed |-> FALSE, sent |-> << >>]

Init ==
    /\ \E inst \in Installations : opts = inst.opts /\ repos = inst.repos
    /\ configs = [c \in ConfigNames |-> [active |-> TRUE, min_rev |-> 0,
                                        max_rev |-> 0]]
    /\ platforms = DefaultPlatforms
    /\ builds = {}
    /\ steps = << >>
    /\ nextId = 1
    /\ now = 0
    /\ pop = [p \in Populators |-> IdlePopulate]
    /\ adminOps = 0
    /\ handlers = [name \in SlaveNames |-> NoHandler]
    /\ slaves = [name \in SlaveNames |-> NoSession]
    /\ chan = [name \in SlaveNames |-> << >>]
    /\ alloc = [name \in SlaveNames |-> NoCall]
    /\ dispatch = NoRound
    /\ last = [op |-> "init"]

Next ==
    \/ Populate
    \/ \E name \in SlaveNames : GetBuildForSlave(name, SlaveProps(name))
    \/ ResetOrphanedBuilds
    \/ \E active \in SUBSET ConfigNames : ActivateConfigs(active)
    \/ \E c \in ConfigNames, range \in RangeChoices :
          UpdateConfig(c, range[1], range[2])
    \/ \E id \in PlatformIds : RemovePlatforms(id)
    \/ \E id \in 1..MaxBuildId, name \in StepNames,
          result \in {"success", "failure"} : StepReceived(id, name, result)
    \/ \E id \in 1..MaxBuildId, result \in {"success", "failure"} :
          BuildCompleted(id, result)
    \/ Tick

Spec == Init /\ [][Next]_vars

-----------------------------------------------------------------------------
(* The build queue with populate() calls that overlap each other and the *)
(* other calls of the queue *)

NextRace ==
    \/ \E p \in Populators : PopulateCollect(p)
    \/ \E p \in Populators : PopulateInsert(p)
    \/ \E name \in SlaveNames : GetBuildForSlave(name, SlaveProps(name))
    \/ ResetOrphanedBuilds
    \/ \E active \in SUBSET ConfigNames : ActivateConfigs(active)
    \/ \E c \in ConfigNames, range \in RangeChoices :
          UpdateConfig(c, range[1], range[2])
    \/ \E id \in 1..MaxBuildId, result \in {"success", "failure"} :
          BuildCompleted(id, result)
    \/ Tick

SpecRace == Init /\ [][NextRace]_vars

-----------------------------------------------------------------------------
(* Properties of the build queue *)

MatchIds(name, properties) == {p.id : p \in MatchSlave(name, properties)}
BuildsOf(bs, c) == {b \in bs : b.config = c}

\* C1: in every reachable state, whatever calls of populate(),
\* get_build_for_slave() and reset_orphaned_builds() ran or overlap, the store
\* holds at most one build row for each (config, rev, platform).
C1_UniqueBuildPerTriple ==
    \A a \in builds : \A b \in builds :
        (a.config = b.config /\ a.rev = b.rev /\ a.platform = b.platform)
            => a = b

\* Two populate() calls overlapped and the second one's insert was rejected.
C1_Witness ==
    /\ last.op = "populate" /\ last.ret = "raise"
    /\ \E b \in builds : b.status # PENDING

\* C2: a call of get_build_for_slave(name, properties) returns, and marks in
\* progress, only a build whose platform is among those match_slave(name,
\* properties) gives.
C2_ReturnedBuildMatches ==
    [][last'.op = "get_build" =>
        \A b \in builds' :
            (b.id = last'.ret \/ (b.status = IN_PROGRESS /\ b \notin builds))
                => b.platform \in MatchIds(last'.name, last'.properties)]_vars

\* A build was returned to a slave that does not match every platform.
C2_Witness ==
    /\ last.op = "get_build" /\ last.ret # NoBuild
    /\ \E p \in platforms : p.id \notin MatchIds(last.name, last.properties)

C4_Original ==
    last.op = "get_build" =>
        \A b \in builds : b.status = PENDING => configs[b.config].active

\* C4, amended: after a get_build_for_slave() call that selected no build, no
\* pending build of a deactivated configuration is left; after a call that
\* selected a build, the only ones left come after the selected build in the
\* order of the scan.
C4_InactivePendingDropped ==
    last.op = "get_build" =>
        \A b \in builds :
            (b.status = PENDING /\ ~configs[b.config].active)
                => (last.ret # NoBuild /\ b.id > last.ret)

\* A call that selected no build dropped the build of a deactivated
\* configuration.
C4_Witness ==
    /\ last.op = "get_build" /\ last.ret = NoBuild /\ last.to_delete # {}
    /\ \E c \in ConfigNames : ~configs[c].active
    /\ platforms = DefaultPlatforms

\* C5: the build get_build_for_slave(name, properties) selects is stored in
\* progress with slave = name and every key and value of properties in its
\* slave_info; the pending builds passed over before it are left as they
\* were, pending and without a slave.
C5_AllocationPersisted ==
    (last.op = "get_build" /\ last.ret # NoBuild) =>
        /\ HasBuild(builds, last.ret)
        /\ LET b == BuildById(builds, last.ret) IN
              /\ b.status = IN_PROGRESS
              /\ b.slave = last.name
              /\ last.properties \subseteq b.slave_info
        /\ \A s \in last.skipped :
              s \in builds /\ s.status = PENDING /\ s.slave = None

\* The build on platform 2 was given to the slave that matches only platform
\* 2, and the older build on platform 1 was passed over.
C5_Witness ==
    /\ last.op = "get_build" /\ last.ret # NoBuild /\ last.name = "s2"
    /\ BuildById(builds, last.ret).platform = 2
    /\ \E s \in last.skipped : s.platform = 1 /\ s.id < last.ret

\* The revisions of a configuration's history that populate() may build: on
\* the configured path, inside the revision range, with a tree that is not
\* empty.
BuildableRevs(c) ==
    {repos[c][i].rev : i \in
        {j \in DOMAIN repos[c] :
            /\ \A k \in 1..j : repos[c][k].path = ConfigPath(c)
            /\ ~(configs[c].min_rev # 0 /\ repos[c][j].rev < configs[c].min_rev)
            /\ ~(configs[c].max_rev # 0 /\ repos[c][j].rev > configs[c].max_rev)
            /\ ~repos[c][j].empty}}
NewestRev(c) == CHOOSE r \in BuildableRevs(c) : \A o \in BuildableRevs(c) : o <= r

\* C6: with build_all off, one populate() call on an active configuration with
\* several buildable revisions and no build yet inserts one pending build per
\* target platform, at the newest revision, and none for an older revision.
C6_NewestRevisionEnqueued ==
    (last.op = "populate" /\ last.ret = "ok" /\ ~opts.build_all
     /\ opts.stabilize_wait = 0) =>
        \A c \in ConfigNames :
            (configs[c].active /\ BuildsOf(last.pre, c) = {}
             /\ Cardinality(BuildableRevs(c)) >= 2)
            => /\ \A p \in TargetPlatformSelect(c) :
                    \E b \in builds :
                        /\ b.config = c /\ b.platform = p.id
                        /\ b.rev = NewestRev(c) /\ b.status = PENDING
               /\ \A b \in BuildsOf(builds, c) : b.rev = NewestRev(c)

\* C7: every build get_build_for_slave() schedules for deletion during its
\* scan is gone from the store when the call returns, also when the call
\* returns no build.
C7_ScheduledBuildsDeleted ==
    last.op = "get_build" =>
        \A id \in last.to_delete : ~HasBuild(builds, id)

\* The call returned no build and deleted every pending build it met.
C7_Witness ==
    /\ last.op = "get_build" /\ last.ret = NoBuild
    /\ Cardinality(last.to_delete) >= 1
    /\ \A b \in builds : b.status # PENDING


-----------------------------------------------------------------------------
(* match_slave as a function of the rules of a platform and the properties  *)
(* of a slave *)

MaxRules == 2

\* The property names and the patterns of the rules of a platform. The
\* administration page strips the name of a rule after it tested it for
\* emptiness, so that a blank name is kept as the empty name.
RulePropNames == {"family", ""}
RulePatterns == {<<"a">>, <<"b">>, <<".">>, <<"(">>}
RuleChoices == {<<n, pat>> : n \in RulePropNames, pat \in RulePatterns}
RuleLists == UNION {[1..k -> RuleChoices] : k \in 0..MaxRules}

\* The properties a slave declares: none, an empty family, or a family name.
MatchProperties ==
    { {}, {<<"family", << >> >>}, {<<"family", <<"A">>>>},
      {<<"family", <<"b">>>>}, {<<"family", <<"a", "b">>>>} }

InitMatch ==
    /\ opts = [build_all |-> FALSE, stabilize_wait |-> 0, timeout |-> 0]
    /\ repos = [c \in ConfigNames |-> PlainHistory(c)]
    /\ configs = [c \in ConfigNames |-> [active |-> TRUE, min_rev |-> 0,
                                        max_rev |-> 0]]
    /\ \E rules \in RuleLists :
          platforms = {[id |-> 1, config |-> "C", rules |-> rules]}
    /\ builds = {}
    /\ steps = << >>
    /\ nextId = 1
    /\ now = 0
    /\ pop = [p \in Populators |-> IdlePopulate]
    /\ adminOps = 0
    /\ handlers = [name \in SlaveNames |-> NoHandler]
    /\ slaves = [name \in SlaveNames |-> NoSession]
    /\ chan = [name \in SlaveNames |-> << >>]
    /\ alloc = [name \in SlaveNames |-> NoCall]
    /\ dispatch = NoRound
    /\ last = [op |-> "init"]

MatchSlaveCall(name, properties) ==
    /\ last' = [op |-> "match_slave", name |-> name,
                properties |-> properties,
                ret |-> MatchSlave(name, properties)]
    /\ UNCHANGED <<handlers, slaves, chan, alloc, dispatch>>
    /\ UNCHANGED <<opts, configs, platforms, repos, builds, steps, nextId,
                   now, pop, adminOps>>

NextMatch ==
    \E name \in SlaveNames, properties \in MatchProperties :
        MatchSlaveCall(name, properties)

SpecMatch == InitMatch /\ [][NextMatch]_vars

\* The pattern matches the value the slave declares for the property of the
\* rule, which is not empty, without regard to case.
RuleSatisfied(rule, properties) ==
    /\ HasKey(properties, rule[1])
    /\ DictGet(properties, rule[1]) # << >>
    /\ PatternCompiles(rule[2])
    /\ ReMatch(rule[2], DictGet(properties, rule[1]))

\* C8: match_slave(name, properties) returns a platform if and only if every
\* rule of the platform whose property name is not empty is satisfied by the
\* properties; the rules with an empty property name are ignored, and a
\* platform without rules is returned for every slave.
C8_MatchIffNamedRulesSatisfied ==
    last.op = "match_slave" =>
        \A p \in platforms :
            (p \in last.ret) <=>
                \A i \in DOMAIN p.rules :
                    p.rules[i][1] # ""
                        => RuleSatisfied(p.rules[i], last.properties)

\* What match_slave does: every rule has to be satisfied, whatever its name.
C8_MatchIffAllRulesSatisfied ==
    last.op = "match_slave" =>
        \A p \in platforms :
            (p \in last.ret) <=>
                \A i \in DOMAIN p.rules :
                    RuleSatisfied(p.rules[i], last.properties)

\* A platform whose only rule has the empty name was matched against a slave.
C8_Witness ==
    /\ last.op = "match_slave"
    /\ \E p \in platforms :
          /\ Len(p.rules) = 1 /\ p.rules[1][1] = ""
          /\ p \notin last.ret


-----------------------------------------------------------------------------
(* The orchestration session: the master of                                 *)
(* src/sandbox/http/bitten/master.py and the slave of                       *)
(* src/trunk/bitten/slave.py *)

DEFAULT_CHECK_INTERVAL == 120
DaySeconds == 86400

\* The clock of a slave counts half seconds: datetime.utcnow() is finer than
\* the seconds the master keeps.
TicksPerSecond == 2

\* The number of builds the master initiates on one slave.
MaxInitiations == 2

\* The time that passes on the slave between two readings of its clock: none
\* or half a second between two steps, and up to more than a day while a step
\* runs.
PauseAdvances == {0, 1}
ClockAdvances == PauseAdvances \cup {DaySeconds * TicksPerSecond + 1}

\* The ids of the steps of the recipe of a configuration.
RecipeSteps(c) == IF c = "C" THEN <<"compile", "test">> ELSE <<"compile">>

\* What becomes of a step: it succeeds, a command of it reports an error, or
\* it raises BuildError (or another exception) or InvalidRecipeError.
StepOutcomes == {"ok", "error_output", "BuildError", "InvalidRecipeError"}

\* _parse_iso_datetime of datetime.isoformat(): the fraction of the second is
\* cut off.
ParseIsoDatetime(time) == time \div TicksPerSecond

\* timedelta.seconds of the difference of two readings of the clock.
TimedeltaSeconds(ticks) == (ticks \div TicksPerSecond) % DaySeconds

\* send_snapshot: d.days * 86400 + d.seconds of
\* d = now - check_interval - rev_time.
TimestampDelta(t, rev_time) ==
    LET d == t - DEFAULT_CHECK_INTERVAL - rev_time
    IN  (d \div DaySeconds) * DaySeconds + (d % DaySeconds)

Message(type, id, time, duration, result) ==
    [type |-> type, id |-> id, time |-> time, duration |-> duration,
     result |-> result]

\* Build.update(): the row takes the values of the object.
BuildUpdate(bs, build) == {b \in bs : b.id # build.id} \cup {build}

\* BuildStep.select(env, build=id), and the table without these rows.
BuildStepSelect(st, id) == SelectSeq(st, LAMBDA step : step.build = id)
BuildStepDelete(st, id) == SelectSeq(st, LAMBDA step : step.build # id)

build_started_unadjusted(build, elem, timestamp_delta) ==
    [build EXCEPT !.started = ParseIsoDatetime(elem.time)]

build_started(build, elem, timestamp_delta) ==
    [build EXCEPT !.started =
        IF timestamp_delta # 0
        THEN ParseIsoDatetime(elem.time) - timestamp_delta
        ELSE ParseIsoDatetime(elem.time)]

\* _build_step_completed moving the start of the step only.
build_step_completed_start_only(build, elem, timestamp_delta) ==
    LET started == ParseIsoDatetime(elem.time)
        stopped == started + elem.duration
    IN  [build |-> build.id, name |-> elem.id,
         status |-> StepStatus(elem.result),
         started |-> IF timestamp_delta # 0 THEN started - timestamp_delta
                     ELSE started,
         stopped |-> stopped]

\* The BuildStep row _build_step_completed inserts.
build_step_completed(build, elem, timestamp_delta) ==
    LET started == ParseIsoDatetime(elem.time)
        stopped == started + elem.duration
    IN  [build |-> build.id, name |-> elem.id,
         status |-> StepStatus(elem.result),
         started |-> IF timestamp_delta # 0 THEN started - timestamp_delta
                     ELSE started,
         stopped |-> IF timestamp_delta # 0 THEN stopped - timestamp_delta
                     ELSE stopped]

build_completed(build, elem, timestamp_delta) ==
    [build EXCEPT
        !.stopped = IF timestamp_delta # 0
                    THEN ParseIsoDatetime(elem.time) - timestamp_delta
                    ELSE ParseIsoDatetime(elem.time),
        !.status = IF elem.result = "failure" THEN FAILURE ELSE SUCCESS]

build_aborted_keeps_slave(build) ==
    [build EXCEPT !.started = 0, !.status = PENDING]

build_aborted(build) ==
    [build EXCEPT !.slave = None, !.slave_info = {}, !.started = 0,
                  !.status = PENDING]


\* Build.select(env, slave=name, status=IN_PROGRESS)
InProgressOn(name) ==
    {b \in builds : b.status = IN_PROGRESS /\ b.slave = name}

\* Master.unregister: the builds the slave was building are aborted.
unregister_keeps_builds(hs, bs, st, name) ==
    [handlers |-> [hs EXCEPT ![name].registered = FALSE], builds |-> bs,
     steps |-> st]

unregister(hs, bs, st, name) ==
    IF ~hs[name].registered
    THEN [handlers |-> hs, builds |-> bs, steps |-> st]
    ELSE LET mine == {b \in bs : b.slave = name /\ b.status = IN_PROGRESS}
         IN  [handlers |-> [hs EXCEPT ![name].registered = FALSE],
              builds |-> (bs \ mine) \cup {build_aborted(b) : b \in mine},
              steps |-> SelectSeq(st, LAMBDA step :
                                        \A b \in mine : step.build # b.id)]

\* queue.register_slave(name, info): whether the slave matches a platform.
register_slave(name, info) == MatchSlave(name, info) # {}

\* Master.register: the handler registered under the name is unregistered;
\* the new handler is entered in the registry if the slave matches a platform.
register_without_match_check(hs, bs, st, handler, name, info) ==
    LET u == unregister(hs, bs, st, name)
    IN  [ret |-> TRUE, builds |-> u.builds, steps |-> u.steps,
         handlers |-> [u.handlers EXCEPT ![name] =
                          [handler EXCEPT !.registered = TRUE]]]

register(hs, bs, st, handler, name, info) ==
    LET u == unregister(hs, bs, st, name)
        any_match == register_slave(name, info)
    IN  IF ~any_match
        THEN [ret |-> FALSE, builds |-> u.builds, steps |-> u.steps,
              handlers |-> u.handlers]
        ELSE [ret |-> TRUE, builds |-> u.builds, steps |-> u.steps,
              handlers |-> [u.handlers EXCEPT ![name] =
                               [handler EXCEPT !.registered = TRUE]]]

\* handle_msg with a register element: the slave is registered and answered
\* ok, or refused with the error 550.
Register(name) ==
    /\ slaves[name].pc = "connect"
    /\ chan[name] = << >>
    /\ LET info == SlaveProps(name)
           handler == [NoHandler EXCEPT
                          !.initiated = handlers[name].initiated,
                          !.superseded = \/ handlers[name].superseded
                                         \/ handlers[name].registered]
           r == register(handlers, builds, steps, handler, name, info)
       IN  /\ builds' = r.builds
           /\ steps' = r.steps
           /\ handlers' = r.handlers
           /\ slaves' = [slaves EXCEPT ![name] =
                 [@ EXCEPT !.pc = IF r.ret THEN "idle" ELSE "refused",
                           !.inbox = NoSession.inbox]]
           /\ last' = [op |-> "register", name |-> name, ret |-> r.ret,
                       error |-> IF r.ret THEN 0 ELSE 550,
                       replaced |-> handlers[name].registered,
                       aborted |-> {b.id : b \in InProgressOn(name)},
                       deleted |-> Len(SelectSeq(steps, LAMBDA step :
                           \E b \in InProgressOn(name) : step.build = b.id))]
    /\ UNCHANGED <<chan, opts, configs, platforms, repos, nextId, now, pop,
                   adminOps, alloc, dispatch>>

\* handle_disconnect, once the replies of the slave have been handled.
Disconnect(name) ==
    /\ slaves[name].pc = "connect"
    /\ handlers[name].registered
    /\ chan[name] = << >>
    /\ LET u == unregister(handlers, builds, steps, name)
       IN  /\ builds' = u.builds
           /\ steps' = u.steps
           /\ handlers' = u.handlers
    /\ last' = [op |-> "disconnect", name |-> name]
    /\ UNCHANGED <<slaves, chan, opts, configs, platforms, repos, nextId, now,
                   pop, adminOps, alloc, dispatch>>

\* handle_disconnect of a session that a later session of the same name has
\* replaced in the registry: the master learns only now that the connection of
\* the earlier session is gone.
DisconnectSuperseded(name) ==
    /\ handlers[name].superseded
    /\ LET u == unregister(handlers, builds, steps, name)
       IN  /\ builds' = u.builds
           /\ steps' = u.steps
           /\ handlers' = [u.handlers EXCEPT ![name].superseded = FALSE]
    /\ last' = [op |-> "disconnect_superseded", name |-> name,
                removed |-> handlers[name].registered,
                aborted |-> {b.id : b \in InProgressOn(name)}]
    /\ UNCHANGED <<slaves, chan, opts, configs, platforms, repos, nextId, now,
                   pop, adminOps, alloc, dispatch>>

\* queue.get_next_pending_build(available_slaves): the first pending build
\* that one of the available slaves can build, with such a slave.
get_next_pending_build(available) ==
    LET pending == BuildSelectStatus(builds, PENDING)
        fits(b) == {name \in available :
                        b.platform \in MatchIds(name, SlaveProps(name))}
        idx == {i \in DOMAIN pending : fits(pending[i]) # {}}
    IN  IF idx = {} THEN {}
        ELSE LET i == CHOOSE k \in idx : \A o \in idx : k <= o
             IN  {<<pending[i], name>> : name \in fits(pending[i])}

\* os.path.basename(queue.env.path)
ProjectName == "trac"

\* send_initiation: the build is updated in the store and the recipe of its
\* configuration, parsed anew and given the project attribute, is sent. row is
\* what the store shows of the build when the recipe is sent.
send_initiation_before_update(bs, pending, name, info) ==
    LET build == [pending EXCEPT !.slave = name,
                                 !.slave_info = DictUpdate(@, info),
                                 !.status = IN_PROGRESS]
        xml == configs[build.config].recipe
    IN  [build |-> build, builds |-> BuildUpdate(bs, build),
         xml |-> [xml EXCEPT !.attr =
                     DictUpdate(@, {<<"project", ProjectName>>})],
         row |-> {b \in bs : b.id = build.id}]

send_initiation(bs, pending, name, info) ==
    LET build == [pending EXCEPT !.slave = name,
                                 !.slave_info = DictUpdate(@, info),
                                 !.status = IN_PROGRESS]
        stored == BuildUpdate(bs, build)
        xml == configs[build.config].recipe
    IN  [build |-> build, builds |-> stored,
         xml |-> [xml EXCEPT !.attr =
                     DictUpdate(@, {<<"project", ProjectName>>})],
         row |-> {b \in stored : b.id = build.id}]

\* _initiate_builds: a pending build is initiated on an available slave.
InitiateBuilds ==
    LET available_slaves == {name \in SlaveNames :
            handlers[name].registered /\ ~handlers[name].building}
    IN  \E pair \in get_next_pending_build(available_slaves) :
          LET name == pair[2]
              sent == send_initiation(builds, pair[1], name, SlaveProps(name))
              build == sent.build
          IN  /\ handlers[name].initiated < MaxInitiations
              /\ builds' = sent.builds
              /\ handlers' = [handlers EXCEPT ![name] =
                    [@ EXCEPT !.building = TRUE, !.build = build,
                              !.replies = "initiation",
                              !.initiated = @ + 1]]
              /\ slaves' = [slaves EXCEPT ![name].inbox =
                    IF slaves[name].pc = "idle"
                    THEN [type |-> "build", xml |-> sent.xml]
                    ELSE @]
              /\ last' = [op |-> "initiate", name |-> name,
                          build |-> build.id, xml |-> sent.xml,
                          row |-> sent.row]
              /\ UNCHANGED <<chan, steps, opts, configs, platforms, repos,
                             nextId, now, pop, adminOps, alloc, dispatch>>

\* The handle_reply of send_initiation (the slave proceeds: send_snapshot) and
\* the handle_reply of send_snapshot, for the reply at the head of the channel.
HandleReply(name) ==
    /\ chan[name] # << >>
    /\ LET h == handlers[name]
           elem == Head(chan[name])
           build == h.build
           delta == h.timestamp_delta
           aborted == build_aborted(build)
       IN
       /\ chan' = [chan EXCEPT ![name] = Tail(@)]
       /\ last' = [op |-> "reply", name |-> name, type |-> elem.type,
                   build |-> build.id, result |-> elem.result,
                   sent |-> slaves[name].sent, elem |-> elem]
       /\ CASE h.replies = "initiation" /\ elem.type = "proceed" ->
                 /\ handlers' = [handlers EXCEPT ![name] =
                       [h EXCEPT !.replies = "snapshot",
                                 !.timestamp_delta =
                                     IF opts.adjust_timestamps
                                     THEN TimestampDelta(now, build.rev_time)
                                     ELSE 0]]
                 /\ slaves' = [slaves EXCEPT ![name].inbox =
                       IF slaves[name].pc = "idle"
                       THEN [type |-> "snapshot", xml |-> NoXml]
                       ELSE @]
                 /\ UNCHANGED <<builds, steps>>
            [] \/ h.replies = "initiation" /\ elem.type = "ERR"
               \/ h.replies = "snapshot" /\ elem.type \in {"ERR", "aborted"} ->
                 /\ handlers' = [handlers EXCEPT ![name] =
                       [h EXCEPT !.build = aborted,
                                 !.building = IF elem.type = "ERR" THEN FALSE
                                              ELSE @,
                                 !.replies = IF elem.type = "ERR" THEN "none"
                                             ELSE @]]
                 /\ builds' = BuildUpdate(builds, aborted)
                 /\ steps' = BuildStepDelete(steps, build.id)
                 /\ UNCHANGED slaves
            [] h.replies = "snapshot" /\ elem.type = "started" ->
                 /\ handlers' = [handlers EXCEPT ![name].build =
                                    build_started(build, elem, delta)]
                 /\ builds' = BuildUpdate(builds,
                                          build_started(build, elem, delta))
                 /\ UNCHANGED <<steps, slaves>>
            [] h.replies = "snapshot" /\ elem.type = "step" ->
                 /\ steps' = Append(steps,
                                    build_step_completed(build, elem, delta))
                 /\ UNCHANGED <<handlers, builds, slaves>>
            [] h.replies = "snapshot" /\ elem.type = "completed" ->
                 /\ handlers' = [handlers EXCEPT ![name].build =
                                    build_completed(build, elem, delta)]
                 /\ builds' = BuildUpdate(builds,
                                          build_completed(build, elem, delta))
                 /\ UNCHANGED <<steps, slaves>>
            [] h.replies = "snapshot" /\ elem.type = "error" ->
                 /\ handlers' = [handlers EXCEPT ![name].build =
                                    [build EXCEPT !.status = FAILURE]]
                 /\ UNCHANGED <<builds, steps, slaves>>
            [] h.replies = "snapshot" /\ elem.type = "NUL" ->
                 /\ handlers' = [handlers EXCEPT ![name] =
                       [h EXCEPT !.building = FALSE, !.replies = "none"]]
                 /\ UNCHANGED <<builds, steps, slaves>>
            [] OTHER ->
                 UNCHANGED <<handlers, builds, steps, slaves>>
    /\ UNCHANGED <<opts, configs, platforms, repos, nextId, now, pop, adminOps,
                   alloc, dispatch>>


\* What the slave does leaves the master and its store as they are.
MasterUnchanged ==
    UNCHANGED <<handlers, builds, steps, opts, configs, platforms, repos,
                nextId, now, pop, adminOps, alloc, dispatch>>

Send(name, msgs) == chan' = [chan EXCEPT ![name] = @ \o msgs]

\* handle_msg of the slave for a build element: the recipe is kept and the
\* slave answers that the master may proceed.
SlaveHandleBuild(name) ==
    /\ slaves[name].pc = "idle"
    /\ slaves[name].inbox.type = "build"
    /\ slaves' = [slaves EXCEPT ![name] =
          [@ EXCEPT !.build_xml = slaves[name].inbox.xml,
                    !.inbox = NoSession.inbox]]
    /\ Send(name, <<Message("proceed", None, 0, 0, None)>>)
    /\ last' = [op |-> "proceed", name |-> name]
    /\ MasterUnchanged

\* The peer answers the build message with ERR instead of proceed.
SlaveRefuseBuild(name) ==
    /\ slaves[name].pc = "idle"
    /\ slaves[name].inbox.type = "build"
    /\ slaves' = [slaves EXCEPT ![name].inbox = NoSession.inbox]
    /\ Send(name, <<Message("ERR", None, 0, 0, None)>>)
    /\ last' = [op |-> "refuse", name |-> name]
    /\ MasterUnchanged

\* handle_msg of the slave for the snapshot, and the head of execute_build:
\* the started element carries the time of the slave.
SlaveStarted(name, adv) ==
    /\ slaves[name].pc = "idle"
    /\ slaves[name].inbox.type = "snapshot"
    /\ LET clock == slaves[name].clock + adv IN
       /\ slaves' = [slaves EXCEPT ![name] =
             [@ EXCEPT !.inbox = NoSession.inbox, !.pc = "loop",
                       !.clock = clock, !.i = 1, !.failed = FALSE,
                       !.sent = << >>]]
       /\ Send(name, IF slaves[name].dry_run THEN << >>
                     ELSE <<Message("started", None, clock, 0, None)>>)
    /\ last' = [op |-> "execute_build", name |-> name]
    /\ MasterUnchanged

\* The head of the step loop: the step starts.
SlaveStepBegin(name, adv) ==
    /\ slaves[name].pc = "loop"
    /\ slaves[name].i <= Len(slaves[name].build_xml.steps)
    /\ slaves' = [slaves EXCEPT ![name] =
          [@ EXCEPT !.pc = "execute", !.clock = @ + adv,
                    !.started = slaves[name].clock + adv]]
    /\ last' = [op |-> "step_begin", name |-> name]
    /\ UNCHANGED chan
    /\ MasterUnchanged

\* The step has run: its element carries the time it started at, how long it
\* took and its result.
SlaveStepEnd(name, adv, outcome) ==
    /\ slaves[name].pc = "execute"
    /\ LET sl == slaves[name]
           clock == sl.clock + adv
           step_failed == outcome # "ok"
           failed == sl.failed \/ outcome \in {"BuildError",
                                               "InvalidRecipeError"}
           xml == Message("step", sl.build_xml.steps[sl.i], sl.started,
                          TimedeltaSeconds(clock - sl.started),
                          IF step_failed THEN "failure" ELSE "success")
       IN
       /\ slaves' = [slaves EXCEPT ![name] =
             [@ EXCEPT !.pc = "loop", !.clock = clock, !.i = @ + 1,
                       !.failed = failed,
                       !.sent = IF sl.dry_run THEN @ ELSE Append(@, xml)]]
       /\ Send(name, IF sl.dry_run THEN << >> ELSE <<xml>>)
    /\ last' = [op |-> "step_end", name |-> name]
    /\ MasterUnchanged

\* The end of execute_build: completed and NUL, or the refusal of a dry run.
SlaveCompleted(name, adv) ==
    /\ slaves[name].pc = "loop"
    /\ slaves[name].i > Len(slaves[name].build_xml.steps)
    /\ LET sl == slaves[name]
           clock == sl.clock + adv
       IN
       /\ slaves' = [slaves EXCEPT ![name] =
             [@ EXCEPT !.pc = "idle", !.clock = clock]]
       /\ Send(name,
               IF sl.dry_run THEN <<Message("ERR", None, 0, 0, None)>>
               ELSE <<Message("completed", None, clock, 0,
                              IF sl.failed THEN "failure" ELSE "success"),
                      Message("NUL", None, 0, 0, None)>>)
    /\ last' = [op |-> "build_end", name |-> name]
    /\ MasterUnchanged

\* The recipe turns out invalid when the next step is taken from it.
SlaveInvalidRecipe(name) ==
    /\ slaves[name].pc = "loop"
    /\ slaves' = [slaves EXCEPT ![name].pc = "idle"]
    /\ Send(name, <<Message("error", None, 0, 0, None),
                    Message("NUL", None, 0, 0, None)>>)
    /\ last' = [op |-> "invalid_recipe", name |-> name]
    /\ MasterUnchanged

\* KeyboardInterrupt or SystemExit during the build: the build is reported
\* aborted and the session ends.
SlaveInterrupt(name) ==
    /\ slaves[name].pc \in {"loop", "execute"}
    /\ slaves' = [slaves EXCEPT ![name].pc = "connect"]
    /\ Send(name, <<Message("aborted", None, 0, 0, None),
                    Message("NUL", None, 0, 0, None)>>)
    /\ last' = [op |-> "interrupt", name |-> name]
    /\ MasterUnchanged

\* The slave dies, or its connection does: nothing more is sent.
SlaveCrash(name) ==
    /\ slaves[name].pc \in {"idle", "loop", "execute"}
    /\ slaves' = [slaves EXCEPT ![name].pc = "connect"]
    /\ last' = [op |-> "crash", name |-> name]
    /\ UNCHANGED chan
    /\ MasterUnchanged

\* The slave that connects to the master and builds.
SessionSlaves == {"s1"}

\* The store the master starts with: a pending build, and a build an earlier
\* session completed, with its step.
SessionBuilds ==
    { [Build("C", 1, 3, 0 - DEFAULT_CHECK_INTERVAL) EXCEPT !.id = 1],
      [Build("C", 1, 2, 0 - DEFAULT_CHECK_INTERVAL) EXCEPT
          !.id = 2, !.slave = "s2", !.status = SUCCESS,
          !.started = 0 - DEFAULT_CHECK_INTERVAL,
          !.stopped = 1 - DEFAULT_CHECK_INTERVAL] }
SessionSteps ==
    << [build |-> 2, name |-> "compile", status |-> SUCCESS,
        started |-> 0 - DEFAULT_CHECK_INTERVAL,
        stopped |-> 1 - DEFAULT_CHECK_INTERVAL] >>

InitSession ==
    /\ \E adjust \in BOOLEAN :
          opts = [build_all |-> TRUE, stabilize_wait |-> 0, timeout |-> 0,
                  adjust_timestamps |-> adjust]
    /\ repos = [c \in ConfigNames |-> PlainHistory(c)]
    /\ configs = [c \in ConfigNames |->
                     [active |-> (c = "C"), min_rev |-> 0, max_rev |-> 0,
                      recipe |-> [attr |-> {}, steps |-> RecipeSteps(c)]]]
    /\ platforms = DefaultPlatforms
    /\ builds = SessionBuilds
    /\ steps = SessionSteps
    /\ nextId = 3
    /\ now = 0
    /\ pop = [p \in Populators |-> IdlePopulate]
    /\ adminOps = 0
    /\ handlers = [name \in SlaveNames |-> NoHandler]
    /\ \E dry_run \in BOOLEAN :
          slaves = [name \in SlaveNames |->
                       [NoSession EXCEPT !.dry_run = dry_run]]
    /\ chan = [name \in SlaveNames |-> << >>]
    /\ alloc = [name \in SlaveNames |-> NoCall]
    /\ dispatch = NoRound
    /\ last = [op |-> "init"]

NextSession ==
    \/ \E name \in SessionSlaves : Register(name)
    \/ \E name \in SessionSlaves : Disconnect(name)
    \/ InitiateBuilds
    \/ \E name \in SessionSlaves : HandleReply(name)
    \/ \E name \in SessionSlaves : SlaveHandleBuild(name)
    \/ \E name \in SessionSlaves : SlaveRefuseBuild(name)
    \/ \E name \in SessionSlaves, adv \in PauseAdvances :
          SlaveStarted(name, adv)
    \/ \E name \in SessionSlaves, adv \in PauseAdvances :
          SlaveStepBegin(name, adv)
    \/ \E name \in SessionSlaves, adv \in ClockAdvances,
          outcome \in StepOutcomes : SlaveStepEnd(name, adv, outcome)
    \/ \E name \in SessionSlaves, adv \in PauseAdvances :
          SlaveCompleted(name, adv)
    \/ \E name \in SessionSlaves : SlaveInvalidRecipe(name)
    \/ \E name \in SessionSlaves : SlaveInterrupt(name)
    \/ Tick

SpecSession == InitSession /\ [][NextSession]_vars

\* Registration: s1 builds for the platform of configuration C; s2 matches
\* no platform of an active configuration. A slave may die at any point and
\* connect again under its name. The slave clocks stand still.
RegisterSlaves == {"s1", "s2"}

InitRegister ==
    /\ InitSession
    /\ ~opts.adjust_timestamps

NextRegister ==
    \/ \E name \in RegisterSlaves : Register(name)
    \/ \E name \in RegisterSlaves : Disconnect(name)
    \/ InitiateBuilds
    \/ \E name \in RegisterSlaves : HandleReply(name)
    \/ \E name \in RegisterSlaves : SlaveHandleBuild(name)
    \/ \E name \in RegisterSlaves : SlaveRefuseBuild(name)
    \/ \E name \in RegisterSlaves : SlaveStarted(name, 0)
    \/ \E name \in RegisterSlaves : SlaveStepBegin(name, 0)
    \/ \E name \in RegisterSlaves, outcome \in StepOutcomes :
          SlaveStepEnd(name, 0, outcome)
    \/ \E name \in RegisterSlaves : SlaveCompleted(name, 0)
    \/ \E name \in RegisterSlaves : SlaveInvalidRecipe(name)
    \/ \E name \in RegisterSlaves : SlaveInterrupt(name)
    \/ \E name \in RegisterSlaves : SlaveCrash(name)
    \/ \E name \in RegisterSlaves : DisconnectSuperseded(name)

SpecRegister == InitRegister /\ [][NextRegister]_vars


-----------------------------------------------------------------------------
(* Properties of the orchestration session *)

\* C9: when the master has handled the completed element of a session in
\* which a build was dispatched and the slave reported N steps with distinct
\* ids, the store holds exactly N step rows for the build, in the order the
\* steps were reported, each SUCCESS unless its result was 'failure', and the
\* build is SUCCESS or FAILURE as the result of the completed element says.
C9_StepsAndStatusAsReported ==
    (last.op = "reply" /\ last.type = "completed") =>
        LET rows == BuildStepSelect(steps, last.build)
            build == BuildById(builds, last.build)
        IN  /\ Len(rows) = Len(last.sent)
            /\ \A i \in DOMAIN rows :
                  /\ rows[i].name = last.sent[i].id
                  /\ rows[i].status = IF last.sent[i].result = "failure"
                                      THEN FAILURE ELSE SUCCESS
            /\ build.status = IF last.result = "failure" THEN FAILURE
                              ELSE SUCCESS

\* A build that was aborted once and dispatched again completed with two
\* steps, the first of which failed without failing the build.
C9_Witness ==
    /\ last.op = "reply" /\ last.type = "completed"
    /\ handlers[last.name].initiated = 2
    /\ Len(last.sent) = 2
    /\ last.sent[1].result = "failure"
    /\ last.sent[2].result = "success"
    /\ last.result = "success"

\* The builds the sessions of this master completed.
CompletedHere == {b \in builds : b.status \in {SUCCESS, FAILURE} /\ b.id = 1}

\* C10: for a build that reached SUCCESS or FAILURE through the started, step
\* and completed elements of a slave whose clock does not go backwards, the
\* times in the store are ordered, build.started <= step.started <=
\* step.stopped <= build.stopped for every step of the build, whether the
\* master adjusts the times or not.
C10_TimestampsOrdered ==
    \A b \in builds : b.status \in {SUCCESS, FAILURE} =>
        \A i \in DOMAIN steps : steps[i].build = b.id =>
            /\ b.started <= steps[i].started
            /\ steps[i].started <= steps[i].stopped
            /\ steps[i].stopped <= b.stopped

\* A build completed under time adjustment with a delta that is not zero; one
\* of its steps ran for more than a day, within one second of the day.
C10_Witness ==
    /\ opts.adjust_timestamps
    /\ \E b \in CompletedHere :
          /\ handlers["s1"].timestamp_delta # 0
          /\ handlers["s1"].build.id = b.id
          /\ Len(BuildStepSelect(steps, b.id)) = 2
          /\ \E i \in DOMAIN steps :
                /\ steps[i].build = b.id
                /\ steps[i].stopped = steps[i].started
                /\ b.stopped > steps[i].stopped + DaySeconds - 1


-----------------------------------------------------------------------------
(* get_build_for_slave() calls of several slaves, with the reads of a call  *)
(* and its writes being separate steps on the store *)

\* A configuration with a platform for one family and a platform any slave
\* can build.
AllocPlatforms ==
    { [id |-> 1, config |-> "C", rules |-> << <<"family", <<"a">>>> >>],
      [id |-> 2, config |-> "C", rules |-> << >>] }

InitAlloc ==
    /\ \E timeout \in {0, Timeout} :
          opts = [build_all |-> FALSE, stabilize_wait |-> 0,
                  timeout |-> timeout]
    /\ repos = [c \in ConfigNames |-> PlainHistory(c)]
    /\ configs = [c \in ConfigNames |-> [active |-> TRUE, min_rev |-> 0,
                                        max_rev |-> 0]]
    /\ platforms = AllocPlatforms
    /\ builds = {}
    /\ steps = << >>
    /\ nextId = 1
    /\ now = 0
    /\ pop = [p \in Populators |-> IdlePopulate]
    /\ adminOps = 0
    /\ handlers = [name \in SlaveNames |-> NoHandler]
    /\ slaves = [name \in SlaveNames |-> NoSession]
    /\ chan = [name \in SlaveNames |-> << >>]
    /\ alloc = [name \in SlaveNames |-> NoCall]
    /\ dispatch = NoRound
    /\ last = [op |-> "init"]

\* The head of get_build_for_slave: the orphaned builds are reset, and the
\* pending builds are read and scanned.
GetBuildScan(name, properties) ==
    /\ alloc[name].pc = "idle"
    /\ LET r == ResetOrphaned(builds, steps, now)
           platformIds == {p.id : p \in MatchSlave(name, properties)}
           scan == ScanPending(r.builds, BuildSelectStatus(r.builds, PENDING),
                               1, platformIds)
       IN  /\ builds' = r.builds
           /\ steps' = r.steps
           /\ alloc' = [alloc EXCEPT ![name] =
                 [pc |-> "scanned",
                  found |-> IF scan.found = NoBuild THEN NoCall.found
                            ELSE BuildById(r.builds, scan.found),
                  to_delete |-> scan.to_delete]]
    /\ last' = [op |-> "scan", name |-> name]
    /\ UNCHANGED <<handlers, slaves, chan, dispatch>>
    /\ UNCHANGED <<opts, configs, platforms, repos, nextId, now, pop, adminOps>>

\* The tail of get_build_for_slave: the builds scheduled for deletion are
\* deleted, and the build found is updated from the object the scan read.
GetBuildWrite(name, properties) ==
    /\ alloc[name].pc = "scanned"
    /\ LET call == alloc[name]
           kept == {b \in builds : b.id \notin call.to_delete}
           build == Allocate(call.found, name, properties)
           row == {b \in builds : b.id = call.found.id}
       IN  /\ builds' = IF call.found.id # NoBuild
                           /\ HasBuild(kept, call.found.id)
                        THEN BuildUpdate(kept, build)
                        ELSE kept
           /\ steps' = SelectSeq(steps,
                                 LAMBDA s : s.build \notin call.to_delete)
           /\ last' = [op |-> "get_build", name |-> name,
                       properties |-> properties, ret |-> call.found.id,
                       to_delete |-> call.to_delete, skipped |-> {},
                       response |-> CreateBuildResponse(call.found.id),
                       after_populate |-> FALSE, raised |-> FALSE,
                       row |-> row]
    /\ alloc' = [alloc EXCEPT ![name] = NoCall]
    /\ UNCHANGED <<handlers, slaves, chan, dispatch>>
    /\ UNCHANGED <<opts, configs, platforms, repos, nextId, now, pop, adminOps>>

NextAlloc ==
    \/ Populate
    \/ \E name \in SlaveNames : GetBuildScan(name, SlaveProps(name))
    \/ \E name \in SlaveNames : GetBuildWrite(name, SlaveProps(name))
    \/ \E id \in 1..MaxBuildId, name \in StepNames,
          result \in {"success", "failure"} : StepReceived(id, name, result)
    \/ \E id \in 1..MaxBuildId, result \in {"success", "failure"} :
          BuildCompleted(id, result)
    \/ Tick

SpecAlloc == InitAlloc /\ [][NextAlloc]_vars

\* C11: a slave that has a build in progress is not allocated a second one:
\* in every reachable state at most one build is in progress with a given
\* slave name.
C11_OneBuildPerSlave ==
    \A name \in SlaveNames : Cardinality(InProgressOn(name)) <= 1

\* A slave asked for a build a second time while its first build was in
\* progress, and got one.
C11_Witness ==
    /\ last.op = "get_build" /\ last.ret # NoBuild
    /\ Cardinality(InProgressOn(last.name)) = 2

\* C12: two get_build_for_slave() calls of two slaves whose reads and writes
\* interleave do not both return the same build: a call does not return a
\* build that the store shows in progress on another slave when the call
\* writes it.
C12_NoBuildReturnedTwice ==
    (last.op = "get_build" /\ last.ret # NoBuild) =>
        \A b \in last.row :
            ~(b.status = IN_PROGRESS /\ b.slave # last.name)

\* Two calls overlapped and both returned the build: the second one wrote its
\* slave over the first one's.
C12_Witness ==
    /\ last.op = "get_build" /\ last.ret # NoBuild
    /\ \E b \in last.row : b.status = IN_PROGRESS /\ b.slave # last.name
    /\ BuildById(builds, last.ret).slave = last.name


-----------------------------------------------------------------------------
(* Properties of the HTTP master: POST /builds *)

\* The builds that a step of the queue changed or deleted.
ChangedBuilds == {b \in builds : b \notin builds'}

\* C13 as stated: a POST to /builds is answered with 201, the location of the
\* build and 'Build pending' exactly when a build was allocated to the slave
\* (the build is then in progress with the slave's name); when none is
\* allocated the answer is 204 with 'No pending builds' and no build changes
\* state.
C13_Original ==
    [][last'.op = "get_build" =>
        LET resp == last'.response IN
        /\ (resp.status = 201 /\ resp.location = last'.ret
                /\ resp.body = "Build pending")
              <=> (last'.ret # NoBuild)
        /\ last'.ret # NoBuild =>
              \E b \in builds' : /\ b.id = last'.ret
                                 /\ b.status = IN_PROGRESS
                                 /\ b.slave = last'.name
        /\ last'.ret = NoBuild =>
              /\ resp.status = 204 /\ resp.body = "No pending builds"
              /\ ChangedBuilds = {}]_vars

\* C13: a POST to /builds is answered with 201, the location of the build and
\* 'Build pending' exactly when a build was allocated to the slave (the build
\* is then in progress with the slave's name); when none is allocated the
\* answer is 204 with 'No pending builds' and no build becomes in progress:
\* the builds the request changes are orphaned builds, which it resets to
\* pending, and obsolete pending builds (among them the builds it has just
\* reset), which it deletes.
C13_ResponseTellsAllocation ==
    [][last'.op = "get_build" =>
        LET resp == last'.response IN
        /\ (resp.status = 201 /\ resp.location = last'.ret
                /\ resp.body = "Build pending")
              <=> (last'.ret # NoBuild)
        /\ last'.ret # NoBuild =>
              \E b \in builds' : /\ b.id = last'.ret
                                 /\ b.status = IN_PROGRESS
                                 /\ b.slave = last'.name
        /\ last'.ret = NoBuild =>
              /\ resp.status = 204 /\ resp.body = "No pending builds"
              /\ \A b \in builds' : b.status = IN_PROGRESS => b \in builds
              /\ \A b \in ChangedBuilds :
                    \/ /\ b.status = IN_PROGRESS
                       /\ \/ \E n \in builds' :
                                n.id = b.id /\ n.status = PENDING
                          \/ b.id \in last'.to_delete
                    \/ b.status = PENDING /\ b.id \in last'.to_delete]_vars

\* A request was answered 204 and deleted a pending build.
C13_Witness ==
    /\ last.op = "get_build" /\ last.ret = NoBuild
    /\ last.response.status = 204
    /\ last.to_delete # {}

\* ---------------------------------------------------------------------------
\* Properties of the recipe dispatch and of the registration.

\* The build whose initiation was the last operation.
Initiated == {b \in builds : last.op = "initiate" /\ b.id = last.build}

\* C14: the recipe document sent for a build is the stored recipe of the
\* configuration with the root attributes path = config.path, revision =
\* build.rev and project added, and the stored recipe is left as it was.
C14_RecipeAnnotated ==
    \A b \in Initiated :
        /\ last.xml.steps = configs[b.config].recipe.steps
        /\ HasKey(last.xml.attr, "project")
        /\ HasKey(last.xml.attr, "path")
        /\ DictGet(last.xml.attr, "path") = ConfigPath(b.config)
        /\ HasKey(last.xml.attr, "revision")
        /\ DictGet(last.xml.attr, "revision") = b.rev
        /\ configs[b.config].recipe.attr = {}

C14_Witness ==
    /\ Initiated # {}
    /\ HasKey(last.xml.attr, "project")
    /\ \E name \in SessionSlaves : slaves[name].inbox.type = "build"

\* C15: a register message of a slave that matches no target platform is
\* answered with the error 550, the session is not entered in the registry
\* and no build is ever initiated on it.
C15_NonMatchingRefused ==
    /\ \A name \in RegisterSlaves :
          ~register_slave(name, SlaveProps(name)) =>
              /\ ~handlers[name].registered
              /\ ~handlers[name].building
              /\ handlers[name].initiated = 0
              /\ slaves[name].inbox.type = "none"
              /\ InProgressOn(name) = {}
    /\ last.op = "register" =>
          (last.error = 550 <=>
              ~register_slave(last.name, SlaveProps(last.name)))
    /\ last.op = "initiate" => register_slave(last.name, SlaveProps(last.name))

C15_Witness ==
    /\ last.op = "register"
    /\ ~register_slave(last.name, SlaveProps(last.name))
    /\ last.error = 550
    /\ slaves[last.name].pc = "refused"
    /\ \E b \in builds : b.status = PENDING

\* C16: when a session registers under a name that is in the registry, the
\* earlier registration is unregistered first, its builds in progress going
\* back to PENDING with their steps deleted, and then the new session is
\* recorded: the registry maps the name to the new session.
C16_ReRegisterReplaces ==
    (last.op = "register" /\ last.replaced) =>
        /\ \A id \in last.aborted :
              /\ \E b \in builds :
                    /\ b.id = id
                    /\ b.status = PENDING
                    /\ b.slave = None
              /\ BuildStepSelect(steps, id) = << >>
        /\ InProgressOn(last.name) = {}
        /\ last.ret
        /\ handlers[last.name].registered
        /\ ~handlers[last.name].building
        /\ handlers[last.name].replies = "none"
        /\ slaves[last.name].pc = "idle"

C16_Witness ==
    /\ last.op = "register"
    /\ last.replaced
    /\ last.aborted # {}
    /\ last.deleted > 0
    /\ handlers[last.name].registered

\* The build an aborted element or an ERR reply was last handled for.
Aborted ==
    {b \in builds : /\ last.op = "reply"
                    /\ last.type \in {"aborted", "ERR"}
                    /\ b.id = last.build}

\* C17: on an aborted element for a build, or an ERR reply to its initiation
\* or its snapshot, the master deletes every step of the build and stores the
\* build as PENDING with no slave, no slave_info and started = 0, so that it
\* can be allocated again.
C17_AbortedBackToPending ==
    /\ (last.op = "reply" /\ last.type \in {"aborted", "ERR"}) =>
           Aborted # {}
    /\ \A b \in Aborted :
          /\ b.status = PENDING
          /\ b.slave = None
          /\ b.slave_info = {}
          /\ b.started = 0
          /\ BuildStepSelect(steps, b.id) = << >>
          /\ \E i \in 1..Len(BuildSelectStatus(builds, PENDING)) :
                BuildSelectStatus(builds, PENDING)[i] = b

C17_Witness ==
    /\ Aborted # {}
    /\ last.type = "aborted"
    /\ Len(last.sent) > 1

C17_WitnessInitiationRefused ==
    /\ Aborted # {}
    /\ last.type = "ERR"
    /\ last.sent = << >>

\* C18: when the master transmits the recipe of a build to a slave, the
\* allocation is already stored: the build is IN_PROGRESS in the store, with
\* the slave and its slave_info; no recipe is sent for a build the store
\* shows as PENDING.
C18_AllocationStoredBeforeSend ==
    last.op = "initiate" =>
        /\ last.row # {}
        /\ \A b \in last.row :
              /\ b.id = last.build
              /\ b.status = IN_PROGRESS
              /\ b.slave = last.name
              /\ \A kv \in SlaveProps(last.name) : kv \in b.slave_info

C18_Witness ==
    /\ last.op = "initiate"
    /\ slaves[last.name].inbox.type = "build"
    /\ slaves[last.name].inbox.xml = last.xml
    /\ \E b \in last.row : b.status = IN_PROGRESS

\* ---------------------------------------------------------------------------
\* The dispatch rounds of the master over several queues (environments), each
\* of which always has a pending build that any connected slave can build.
\* The slaves finish their builds between two rounds.
MaxQueues == 4
MaxDispatchSlaves == 3

QueueNames == 1..MaxQueues

\* list.pop(idx) of Python, idx counted from 0: the element and the rest.
ListPop(list, idx) ==
    [elem |-> list[idx + 1],
     rest |-> SubSeq(list, 1, idx) \o SubSeq(list, idx + 2, Len(list))]

InitDispatch ==
    /\ opts = [build_all |-> TRUE, stabilize_wait |-> 0, timeout |-> 0,
               adjust_timestamps |-> FALSE]
    /\ repos = [c \in ConfigNames |-> PlainHistory(c)]
    /\ configs = [c \in ConfigNames |->
                     [active |-> TRUE, min_rev |-> 0, max_rev |-> 0,
                      recipe |-> [attr |-> {}, steps |-> RecipeSteps(c)]]]
    /\ platforms = DefaultPlatforms
    /\ builds = {}
    /\ steps = << >>
    /\ nextId = 1
    /\ now = 0
    /\ pop = [p \in Populators |-> IdlePopulate]
    /\ adminOps = 0
    /\ handlers = [name \in SlaveNames |-> NoHandler]
    /\ slaves = [name \in SlaveNames |-> NoSession]
    /\ chan = [name \in SlaveNames |-> << >>]
    /\ alloc = [name \in SlaveNames |-> NoCall]
    /\ \E n \in 2..MaxQueues, m \in 1..MaxDispatchSlaves :
          dispatch = [NoRound EXCEPT !.queues = [i \in 1..n |-> i],
                                     !.slaves = 1..m]
    /\ last = [op |-> "init"]

DispatchUnchanged ==
    UNCHANGED <<opts, configs, platforms, repos, builds, steps, nextId, now,
                pop, adminOps, handlers, slaves, chan, alloc>>

\* _initiate_builds is entered: the slaves that are not building, and the
\* copy of the list of queues the loop runs over.
InitiateBuildsBegin ==
    /\ dispatch.idx = Len(dispatch.copy)
    /\ dispatch' = [dispatch EXCEPT !.copy = dispatch.queues, !.idx = 0,
                                    !.available = dispatch.slaves]
    /\ last' = [op |-> "round"]
    /\ DispatchUnchanged

\* One pass of the loop for a queue that gets a build initiated on an
\* available slave: the slave is taken and the list of queues is rotated.
InitiateBuildsServe ==
    /\ dispatch.idx < Len(dispatch.copy)
    /\ \E slave \in dispatch.available :
          LET queue == dispatch.copy[dispatch.idx + 1]
              popped == ListPop(dispatch.queues, dispatch.idx)
          IN  /\ dispatch' = [dispatch EXCEPT
                    !.available = @ \ {slave},
                    !.queues = Append(popped.rest, popped.elem),
                    !.idx = @ + 1]
              /\ last' = [op |-> "serve", queue |-> queue, slave |-> slave]
    /\ DispatchUnchanged

\* One pass of the loop for a queue when no slave is left: no build.
InitiateBuildsSkip ==
    /\ dispatch.idx < Len(dispatch.copy)
    /\ dispatch.available = {}
    /\ dispatch' = [dispatch EXCEPT !.idx = @ + 1]
    /\ last' = [op |-> "skip", queue |-> dispatch.copy[dispatch.idx + 1]]
    /\ DispatchUnchanged

NextDispatch ==
    \/ InitiateBuildsBegin
    \/ InitiateBuildsServe
    \/ InitiateBuildsSkip

\* The master runs its rounds for ever, and a round runs to its end.
SpecDispatch ==
    InitDispatch /\ [][NextDispatch]_vars /\ WF_vars(NextDispatch)

\* C19: when several queues permanently have pending builds that the
\* connected slaves can build, the repeated dispatch rounds serve every such
\* queue infinitely often, for any number of queues and of slaves.
C19_NoQueueStarved ==
    \A queue \in QueueNames :
        []((\E i \in 1..Len(dispatch.queues) : dispatch.queues[i] = queue)
             => <>(last.op = "serve" /\ last.queue = queue))

C19_Witness ==
    /\ last.op = "serve"
    /\ dispatch.queues # dispatch.copy
    /\ dispatch.available # {}
    /\ dispatch.idx < Len(dispatch.copy)

\* ---------------------------------------------------------------------------
\* populate() with build_all

\* C20: with build_all on, one populate() call inserts a PENDING build for
\* every (target platform, revision) pair of every active configuration whose
\* revision is in the range, has a tree that is not empty and has no build
\* yet on that platform.
C20_EveryRevisionEnqueued ==
    (last.op = "populate" /\ last.ret = "ok" /\ opts.build_all
     /\ opts.stabilize_wait = 0) =>
        \A c \in ConfigNames : configs[c].active =>
            \A p \in TargetPlatformSelect(c), rev \in BuildableRevs(c) :
                (~\E b \in last.pre : /\ b.config = c /\ b.platform = p.id
                                      /\ b.rev = rev)
                => \E b \in builds \ last.pre :
                      /\ b.config = c /\ b.platform = p.id /\ b.rev = rev
                      /\ b.status = PENDING

\* A populate() call with build_all on that inserted a build, for a
\* configuration with several revisions to build.
C20_Witness ==
    /\ last.op = "populate" /\ last.ret = "ok" /\ opts.build_all
    /\ builds \ last.pre # {}
    /\ \E c \in ConfigNames :
          /\ configs[c].active
          /\ TargetPlatformSelect(c) # {}
          /\ Cardinality(BuildableRevs(c)) >= 2

\* ---------------------------------------------------------------------------
\* populate() called again and again on a repository that does not change,
\* for queues of every kind and a configuration whose path has a long or a
\* short history, with or without a copy, and whose range is open or closed.

\* The histories of the path of a configuration (newest first).
HistoryChoices(c) ==
    {PlainHistory(c), CopiedHistory(c)}
        \cup {SubSeq(PlainHistory(c), 1, k) : k \in 1..(MaxRev - 1)}

InitPopulate ==
    /\ \E build_all \in BOOLEAN, stabilize_wait \in {0, StabilizeWait} :
          opts = [build_all |-> build_all, stabilize_wait |-> stabilize_wait,
                  timeout |-> 0]
    /\ \E history \in HistoryChoices("C"),
          other \in {PlainHistory("D"), SubSeq(PlainHistory("D"), 1, 1)} :
          repos = [c \in ConfigNames |-> IF c = "C" THEN history ELSE other]
    /\ \E range \in RangeChoices :
          configs = [c \in ConfigNames |->
                        IF c = "C"
                        THEN [active |-> TRUE, min_rev |-> range[1],
                              max_rev |-> range[2]]
                        ELSE [active |-> TRUE, min_rev |-> 0, max_rev |-> 0]]
    /\ platforms = DefaultPlatforms
    /\ builds = {}
    /\ steps = << >>
    /\ nextId = 1
    /\ now = 0
    /\ pop = [p \in Populators |-> IdlePopulate]
    /\ adminOps = 0
    /\ handlers = [name \in SlaveNames |-> NoHandler]
    /\ slaves = [name \in SlaveNames |-> NoSession]
    /\ chan = [name \in SlaveNames |-> << >>]
    /\ alloc = [name \in SlaveNames |-> NoCall]
    /\ dispatch = NoRound
    /\ last = [op |-> "init"]

NextPopulate ==
    \/ Populate
    \/ Tick

\* populate() is called again and again, and time passes.
SpecPopulate ==
    InitPopulate /\ [][NextPopulate]_vars /\ WF_vars(Populate) /\ WF_vars(Tick)

\* A build exists for every target platform of every active configuration at
\* every revision of the history that can be built.
HistoryQueued ==
    \A c \in ConfigNames : configs[c].active =>
        \A p \in TargetPlatformSelect(c), rev \in BuildableRevs(c) :
            BuildSelect(builds, c, rev, p.id) # {}

\* C21: calling populate() again and again on a repository that does not
\* change eventually has the whole change history of each active
\* configuration in the queue: a build for every target platform at every
\* revision in the range (here with build_all on and no stabilize_wait).
C21_HistoryEventuallyQueued ==
    (opts.build_all /\ opts.stabilize_wait = 0) => <>HistoryQueued

C21_Witness ==
    /\ last.op = "populate" /\ last.ret = "ok"
    /\ opts.build_all /\ opts.stabilize_wait = 0
    /\ last.pre = builds
    /\ builds # {}
    /\ ~HistoryQueued

\* The builds the last populate() call inserted.
Inserted == IF last.op = "populate" THEN builds \ last.pre ELSE {}

\* The revisions of the repository.
AllRevs(c) == {repos[c][i].rev : i \in DOMAIN repos[c]}

C22_WitnessDelayed ==
    /\ last.op = "populate" /\ last.ret = "ok"
    /\ last.delayed # {}
    /\ Inserted # {}

\* A populate() call found no revision old enough.
C22_WitnessNoneOldEnough ==
    /\ last.op = "populate" /\ last.ret = "ok"
    /\ last.delayed # {}
    /\ \A c \in ConfigNames : \A rev \in AllRevs(c) :
          now - RevTime(rev) < opts.stabilize_wait

\* C23: when an insert of populate() fails on the uniqueness of (config, rev,
\* platform) because another populate() call inserted the triple first, the
\* failure is logged and swallowed: populate() returns normally and the other
\* builds it collected are still inserted.
C23_InsertFailureSwallowed ==
    last.op = "populate" =>
        /\ last.ret = "ok"
        /\ last.ret = "raise" =>
              \A b \in Range(last.todo) :
                  BuildSelect(builds, b.config, b.rev, b.platform) # {}

\* An insert of populate() failed with builds left to insert that the store
\* does not hold.
C23_Witness ==
    /\ last.op = "populate" /\ last.ret = "raise"
    /\ \E b \in Range(last.todo) :
          BuildSelect(builds, b.config, b.rev, b.platform) = {}

\* The (config, rev, platform) triples of a set of builds.
Triples(bs) == {<<b.config, b.rev, b.platform>> : b \in bs}

\* C24: populate() is idempotent: with the repository, the configurations
\* and the clock unchanged and no stabilize_wait, a second populate() call,
\* right after the first or after a get_build_for_slave() call in between,
\* returns normally and leaves the (config, rev, platform) triples of the
\* builds as they are without it.
C24_PopulateIdempotent ==
    [][(/\ last'.op = "populate"
        /\ opts.stabilize_wait = 0
        /\ last'.second)
       => /\ last'.ret = "ok"
          /\ Triples(builds') = Triples(builds)]_vars

\* The second populate() call put back a build that the get_build_for_slave()
\* call between the two had deleted.
C24_Witness ==
    /\ last.op = "populate" /\ last.ret = "ok"
    /\ last.second
    /\ opts.stabilize_wait = 0
    /\ Triples(builds) # Triples(last.pre)

\* The builds in progress whose configuration is deactivated.
InFlightDeactivated ==
    {b \in builds : b.status = IN_PROGRESS /\ ~configs[b.config].active}

\* C25 as claimed: a build in progress whose configuration the operator has
\* deactivated is dropped (its row deleted) by the next
\* get_build_for_slave() call of any slave.
C25_Original ==
    [][last'.op = "get_build" =>
          \A b \in InFlightDeactivated : ~HasBuild(builds', b.id)]_vars

\* C25, amended: the next get_build_for_slave() call leaves a build in
\* progress of a deactivated configuration as it is, unless the build has
\* reached the timeout: then the call resets it to PENDING and drops it when
\* its scan comes to it, that is unless the call selected a build before it.
C25_InFlightKeptUntilOrphaned ==
    [][last'.op = "get_build" =>
          \A b \in InFlightDeactivated :
              IF opts.timeout # 0 /\ Orphaned(b, now)
              THEN \/ ~HasBuild(builds', b.id)
                   \/ /\ last'.ret # NoBuild
                      /\ b.id > last'.ret
                      /\ ResetBuild(b) \in builds'
              ELSE b \in builds']_vars

\* A get_build_for_slave() call left a build in progress of a deactivated
\* configuration in the store.
C25_Witness ==
    /\ last.op = "get_build"
    /\ InFlightDeactivated # {}

\* C26: with timeout = 0, reset_orphaned_builds() is a no-op: every build and
\* every step is left as it was, however old the last activity of a build in
\* progress is.
C26_NoTimeoutNoReset ==
    [][(last'.op = "reset" /\ opts.timeout = 0) =>
          /\ builds' = builds
          /\ steps' = steps
          /\ last'.orphans = {}]_vars

\* reset_orphaned_builds() was called with no timeout set while a build with
\* a step was in progress, its last activity some time ago.
C26_Witness ==
    /\ last.op = "reset"
    /\ opts.timeout = 0
    /\ \E b \in builds : /\ b.status = IN_PROGRESS
                         /\ now - b.last_activity > 0
                         /\ BuildStepSelect(steps, b.id) # << >>

\* ---------------------------------------------------------------------------
\* collect_changes, as populate() calls it

\* The tuples collect_changes is to yield for a configuration: one for every
\* target platform and every revision to build, with the build the store
\* holds for it.
ExpectedChanges(bs, c) ==
    {[platform |-> p.id, rev |-> rev,
      build |-> IF BuildSelect(bs, c, rev, p.id) # {}
                THEN (CHOOSE b \in BuildSelect(bs, c, rev, p.id) : TRUE).id
                ELSE NoBuild] :
        p \in TargetPlatformSelect(c), rev \in BuildableRevs(c)}

\* C27: collect_changes(config) yields, newest revision first, one (platform,
\* rev, build) tuple for every target platform of the configuration and every
\* entry of the history up to the first copy or the first revision older
\* than min_rev, leaving out the revisions newer than max_rev and those with
\* an empty tree; build is the build the store holds for (config, rev,
\* platform), or none.
C27_ChangesCollected ==
    (last.op = "populate" /\ last.ret = "ok") =>
        \A c \in ConfigNames : configs[c].active =>
            LET changes == last.changes[c] IN
            /\ Range(changes) = ExpectedChanges(last.pre, c)
            /\ Len(changes) = Cardinality(ExpectedChanges(last.pre, c))
            /\ \A i, j \in DOMAIN changes :
                  i < j => changes[i].rev >= changes[j].rev

\* populate() called collect_changes for a configuration with a platform and
\* several revisions to build, one of which has a build.
C27_Witness ==
    /\ last.op = "populate" /\ last.ret = "ok"
    /\ \E c \in ConfigNames :
          /\ configs[c].active
          /\ Cardinality(BuildableRevs(c)) >= 2
          /\ Len(last.changes[c]) >= 1
          /\ \E i \in DOMAIN last.changes[c] :
                last.changes[c][i].build # NoBuild

\* The revisions of the history of a configuration before the first copy.
RevsOnPath(c) ==
    {repos[c][j].rev : j \in {i \in DOMAIN repos[c] :
        \A k \in 1..i : repos[c][k].path = ConfigPath(c)}}

\* C28: populate() never inserts a build whose revision lies outside the
\* [min_rev, max_rev] window of the configuration or beyond a copy of the
\* path; with min_rev = max_rev at most one revision is enqueued per platform.
C28_InsertedInsideWindow ==
    /\ \A b \in Inserted :
          /\ ~(configs[b.config].min_rev # 0
               /\ rev_older_than(b.rev, configs[b.config].min_rev))
          /\ ~(configs[b.config].max_rev # 0
               /\ rev_older_than(configs[b.config].max_rev, b.rev))
          /\ b.rev \in RevsOnPath(b.config)
    /\ \A c \in ConfigNames :
          (configs[c].min_rev # 0 /\ configs[c].min_rev = configs[c].max_rev)
          => \A b1, b2 \in BuildsOf(builds, c) :
                b1.platform = b2.platform => b1.rev = b2.rev

\* populate() inserted a build for a configuration with a window.
C28_Witness ==
    /\ last.op = "populate" /\ last.ret = "ok"
    /\ \E b \in Inserted : /\ configs[b.config].min_rev # 0
                           /\ configs[b.config].max_rev # 0

\* ---------------------------------------------------------------------------
\* The build queue serving slaves that match the platforms of more than one
\* configuration, over a repository whose changesets may share a second, while
\* the administrator moves the lower bound of a revision range.

\* A platform of C for the slaves of family a, and a platform of D without
\* rules, which every slave matches.
ScanPlatforms ==
    { [id |-> 1, config |-> "C", rules |-> << <<"family", <<"a">>>> >>],
      [id |-> 2, config |-> "D", rules |-> << >>] }

\* The lower bounds of the range of C: none, or the newest revision.
ScanMinRevs == {0, MaxRev}

InitScan ==
    /\ \E build_all \in BOOLEAN :
          opts = [build_all |-> build_all, stabilize_wait |-> 0, timeout |-> 0]
    /\ \E history \in {PlainHistory("C"), SameSecondHistory("C")},
          k \in {1, MaxRev} :
          repos = [c \in ConfigNames |->
                      IF c = "C" THEN history
                      ELSE SubSeq([i \in 1..MaxRev |->
                                     [history[i] EXCEPT !.path = ConfigPath(c)]],
                                  1, k)]
    /\ \E min_rev \in ScanMinRevs :
          configs = [c \in ConfigNames |->
                        [active |-> TRUE,
                         min_rev |-> IF c = "C" THEN min_rev ELSE 0,
                         max_rev |-> 0]]
    /\ platforms = ScanPlatforms
    /\ builds = {}
    /\ steps = << >>
    /\ nextId = 1
    /\ now = 0
    /\ pop = [p \in Populators |-> IdlePopulate]
    /\ adminOps = 0
    /\ handlers = [name \in SlaveNames |-> NoHandler]
    /\ slaves = [name \in SlaveNames |-> NoSession]
    /\ chan = [name \in SlaveNames |-> << >>]
    /\ alloc = [name \in SlaveNames |-> NoCall]
    /\ dispatch = NoRound
    /\ last = [op |-> "init"]

NextScan ==
    \/ Populate
    \/ \E name \in SlaveNames : GetBuildForSlave(name, SlaveProps(name))
    \/ \E min_rev \in ScanMinRevs : UpdateConfig("C", min_rev, 0)

SpecScan == InitScan /\ [][NextScan]_vars

\* The builds get_build_for_slave(name, properties) may hand out when it is
\* called in the current state: pending once the orphans are reset, not to be
\* deleted, and of a platform the slave matches.
Candidates(name, properties) ==
    LET r == ResetOrphaned(builds, steps, now)
    IN {b \in r.builds : /\ b.status = PENDING
                         /\ ~ShouldDeleteBuild(r.builds, b)
                         /\ b.platform \in MatchIds(name, properties)}

Superseded(bs, build) ==
    /\ ~opts.build_all
    /\ Cardinality(BuildSelectNewer(bs, build.config, build.rev_time,
                                    build.platform)) > 1

\* The builds of the configuration and platform of a build whose changeset is
\* younger than the build's.
StrictlyNewer(bs, build) ==
    {o \in bs : /\ o.config = build.config /\ o.platform = build.platform
                /\ o.rev_time > build.rev_time}

\* No other test of should_delete_build applies to the build.
OnlyNewerRuleApplies(build) ==
    /\ TargetPlatformFetch(build.platform) # {}
    /\ configs[build.config].active
    /\ ~(configs[build.config].min_rev # 0
         /\ rev_older_than(build.rev, configs[build.config].min_rev))
    /\ ~(configs[build.config].max_rev # 0
         /\ rev_older_than(configs[build.config].max_rev, build.rev))

\* C30: with build_all off, a build that get_build_for_slave() drops on
\* account of newer builds alone has a build of the same (config, platform)
\* with a strictly greater rev_time; builds of equal rev_time do not make each
\* other dropped, and the build with the greatest rev_time of a
\* (config, platform) is not dropped by this rule.
C30_DroppedOnlyForStrictlyNewer ==
    [][last'.op = "get_build" =>
        LET r == ResetOrphaned(builds, steps, now) IN
        \A id \in last'.to_delete :
            LET b == BuildById(r.builds, id)
            IN (OnlyNewerRuleApplies(b) /\ Superseded(r.builds, b))
                   => StrictlyNewer(r.builds, b) # {}]_vars

\* get_build_for_slave() dropped builds while every configuration was active
\* with an open range and every platform was in place: the builds went on
\* account of newer builds.
C30_Witness ==
    /\ last.op = "get_build" /\ last.to_delete # {}
    /\ ~opts.build_all
    /\ platforms = ScanPlatforms
    /\ \A c \in ConfigNames :
          configs[c].active /\ configs[c].min_rev = 0 /\ configs[c].max_rev = 0

\* ---------------------------------------------------------------------------
\* The build queue while the administrator removes a configuration or a
\* platform: populate() calls overlap the removal, so a build can be inserted
\* for a configuration that has just been deleted.

NextGone ==
    \/ \E p \in Populators : PopulateCollect(p)
    \/ \E p \in Populators : PopulateInsert(p)
    \/ \E name \in SlaveNames : GetBuildForSlave(name, SlaveProps(name))
    \/ \E c \in ConfigNames : RemoveConfigs(c)
    \/ \E id \in PlatformIds : RemovePlatforms(id)

SpecGone == Init /\ [][NextGone]_vars

\* The pending builds whose configuration or platform row is gone.
GoneBuilds(bs) ==
    {b \in bs : /\ b.status = PENDING
                /\ (~HasConfig(b.config) \/ TargetPlatformFetch(b.platform) = {})}

\* C31: a get_build_for_slave() call that meets pending builds whose
\* configuration or platform row is gone completes without raising, and has
\* deleted every such build it visited (the builds before the one it returns,
\* or all of them when it returns none).
C31_GoneBuildsDropped ==
    [][last'.op = "get_build" =>
        LET gone == GoneBuilds(ResetOrphaned(builds, steps, now).builds)
        IN /\ gone # {} => ~last'.raised
           /\ \A b \in gone :
                 (last'.ret = NoBuild \/ b.id < last'.ret)
                     => ~HasBuild(builds', b.id)]_vars

\* get_build_for_slave() dropped a build whose platform was gone and went on to
\* return a later build.
C31_Witness ==
    /\ last.op = "get_build" /\ last.ret # NoBuild /\ last.to_delete # {}
    /\ \A c \in ConfigNames : HasConfig(c) /\ configs[c].active
    /\ platforms # DefaultPlatforms

\* get_build_for_slave() met a build whose configuration was gone.
C31_WitnessConfigGone ==
    /\ last.op = "get_build"
    /\ GoneBuilds(builds) # {}
    /\ \E b \in GoneBuilds(builds) : ~HasConfig(b.config)

\* ---------------------------------------------------------------------------
\* match_slave over the platforms of two configurations, each with rules of
\* every kind.

\* The rules of the second platform: none, or one rule.
ShortRuleLists == {rules \in RuleLists : Len(rules) <= 1}

InitMatchAll ==
    /\ opts = [build_all |-> FALSE, stabilize_wait |-> 0, timeout |-> 0]
    /\ repos = [c \in ConfigNames |-> PlainHistory(c)]
    /\ configs = [c \in ConfigNames |-> [active |-> TRUE, min_rev |-> 0,
                                        max_rev |-> 0]]
    /\ \E rules \in RuleLists, other \in ShortRuleLists :
          platforms = {[id |-> 1, config |-> "C", rules |-> rules],
                       [id |-> 2, config |-> "D", rules |-> other]}
    /\ builds = {}
    /\ steps = << >>
    /\ nextId = 1
    /\ now = 0
    /\ pop = [p \in Populators |-> IdlePopulate]
    /\ adminOps = 0
    /\ handlers = [name \in SlaveNames |-> NoHandler]
    /\ slaves = [name \in SlaveNames |-> NoSession]
    /\ chan = [name \in SlaveNames |-> << >>]
    /\ alloc = [name \in SlaveNames |-> NoCall]
    /\ dispatch = NoRound
    /\ last = [op |-> "init"]

SpecMatchAll == InitMatchAll /\ [][NextMatch]_vars

\* The rule cannot be satisfied by the properties: its property is missing or
\* empty, or its pattern is no regular expression.
RuleBroken(rule, properties) ==
    \/ ~HasKey(properties, rule[1])
    \/ DictGet(properties, rule[1]) = << >>
    \/ ~PatternCompiles(rule[2])

\* C32: a platform with a rule whose pattern does not compile, or whose
\* property is missing or empty in the properties of the slave, is not among
\* the platforms match_slave() returns, and the call still returns every
\* platform whose rules are all satisfied.
C32_BrokenRuleIsNonMatch ==
    last.op = "match_slave" =>
        \A p \in platforms :
            /\ (\E i \in DOMAIN p.rules : RuleBroken(p.rules[i], last.properties))
                   => p \notin last.ret
            /\ (\A i \in DOMAIN p.rules :
                    RuleSatisfied(p.rules[i], last.properties))
                   => p \in last.ret

\* match_slave() tried a pattern that does not compile for one platform and
\* returned the other platform.
C32_Witness ==
    /\ last.op = "match_slave"
    /\ \E p \in platforms :
          ReachesBadPattern(FilterRules(p.rules), 1, last.properties)
    /\ last.ret # {}

\* match_slave() returned a platform although the property of a rule of the
\* other platform was missing, and although it was empty.
C32_WitnessMissingProperty ==
    /\ last.op = "match_slave" /\ last.ret # {}
    /\ \E p \in platforms : \E i \in DOMAIN p.rules :
          ~HasKey(last.properties, p.rules[i][1])
C32_WitnessEmptyProperty ==
    /\ last.op = "match_slave" /\ last.ret # {}
    /\ \E p \in platforms : \E i \in DOMAIN p.rules :
          /\ HasKey(last.properties, p.rules[i][1])
          /\ DictGet(last.properties, p.rules[i][1]) = << >>

\* ---------------------------------------------------------------------------
\* The build queue over a repository in which the path of a configuration is
\* missing.

InitBroken ==
    /\ \E build_all \in BOOLEAN :
          opts = [build_all |-> build_all, stabilize_wait |-> 0, timeout |-> 0]
    /\ \E nodes \in (SUBSET ConfigNames) \ {ConfigNames},
          history \in {"plain", "copied"} :
          repos = [c \in nodes |-> IF history = "plain" THEN PlainHistory(c)
                                   ELSE CopiedHistory(c)]
    /\ \E min_rev \in ScanMinRevs :
          configs = [c \in ConfigNames |->
                        [active |-> TRUE, min_rev |-> min_rev, max_rev |-> 0]]
    /\ platforms = ScanPlatforms
    /\ builds = {}
    /\ steps = << >>
    /\ nextId = 1
    /\ now = 0
    /\ pop = [p \in Populators |-> IdlePopulate]
    /\ adminOps = 0
    /\ handlers = [name \in SlaveNames |-> NoHandler]
    /\ slaves = [name \in SlaveNames |-> NoSession]
    /\ chan = [name \in SlaveNames |-> << >>]
    /\ alloc = [name \in SlaveNames |-> NoCall]
    /\ dispatch = NoRound
    /\ last = [op |-> "init"]

NextBroken ==
    \/ Populate
    \/ \E name \in SlaveNames : GetBuildForSlave(name, SlaveProps(name))
    \/ \E c \in ConfigNames, min_rev \in ScanMinRevs : UpdateConfig(c, min_rev, 0)
    \/ \E active \in SUBSET ConfigNames : ActivateConfigs(active)

SpecBroken == InitBroken /\ [][NextBroken]_vars

\* C33: for a configuration whose path is not in the repository
\* collect_changes() yields nothing and raises nothing: populate() returns
\* normally, inserts no build for that configuration, and has a build in the
\* queue for every tuple the other active configurations yield.
C33_BrokenPathSkipped ==
    last.op = "populate" =>
        /\ last.ret = "ok"
        /\ \A c \in ConfigNames :
              IF ~HasNode(c)
              THEN /\ last.changes[c] = << >>
                   /\ BuildsOf(builds, c) = {}
              ELSE \A i \in DOMAIN last.changes[c] :
                      BuildSelect(builds, c, last.changes[c][i].rev,
                                  last.changes[c][i].platform) # {}

\* populate() skipped the first configuration, whose path is missing, and
\* inserted a build for the second.
C33_Witness ==
    /\ last.op = "populate" /\ last.ret = "ok"
    /\ ~HasNode("C") /\ configs["C"].active
    /\ \E b \in builds \ last.pre : b.config = "D"

\* C34: with the adjustment of timestamps on, the delta is computed once for a
\* build, as now - check_interval - rev_time when the snapshot is sent, and
\* that one value is subtracted from the time of the started element, from
\* the start and the end of every step and from the time of the completed
\* element; a step lasts in the store as long as the slave reported.
C34_OneDeltaForTheBuild ==
    [][(last'.op = "reply" /\ opts.adjust_timestamps
        /\ handlers[last'.name].replies \in {"initiation", "snapshot"}) =>
        LET h == handlers[last'.name]
            elem == last'.elem
            delta == handlers'[last'.name].timestamp_delta
            time == ParseIsoDatetime(elem.time)
        IN /\ (h.replies = "initiation" /\ elem.type = "proceed")
                  => delta = now - DEFAULT_CHECK_INTERVAL - h.build.rev_time
           /\ (h.replies = "snapshot"
               /\ elem.type \in {"started", "step", "completed"})
                  => delta = h.timestamp_delta
           /\ (h.replies = "snapshot" /\ elem.type = "started")
                  => BuildById(builds', h.build.id).started = time - delta
           /\ (h.replies = "snapshot" /\ elem.type = "step")
                  => /\ Len(steps') = Len(steps) + 1
                     /\ steps'[Len(steps')].build = h.build.id
                     /\ steps'[Len(steps')].started = time - delta
                     /\ steps'[Len(steps')].stopped
                           = time + elem.duration - delta
           /\ (h.replies = "snapshot" /\ elem.type = "completed")
                  => BuildById(builds', h.build.id).stopped = time - delta]_vars

\* A build was completed whose times were moved by a delta other than zero,
\* with a step in the store.
C34_Witness ==
    /\ opts.adjust_timestamps
    /\ last.op = "reply" /\ last.type = "completed"
    /\ handlers[last.name].timestamp_delta # 0
    /\ BuildStepSelect(steps, last.build) # << >>
    /\ BuildById(builds, last.build).stopped
          = ParseIsoDatetime(last.elem.time)
              - handlers[last.name].timestamp_delta

\* C35: when the closing NUL of a build arrives for which the slave reported
\* an error element (or a failed completion), so that the handler holds the
\* build as failed, the status of the build in the store is FAILURE.
C35_ErrorEndsInFailure ==
    [][(/\ last'.op = "reply" /\ last'.type = "NUL"
        /\ handlers[last'.name].replies = "snapshot"
        /\ handlers[last'.name].build.status = FAILURE)
          => BuildById(builds', last'.build).status = FAILURE]_vars

\* The NUL after an error element arrived: the handler holds the build as
\* failed and the store holds it as in progress.
C35_Witness ==
    /\ last.op = "reply" /\ last.type = "NUL"
    /\ handlers[last.name].build.id = last.build
    /\ handlers[last.name].build.status = FAILURE
    /\ BuildById(builds, last.build).status = IN_PROGRESS

\* The builds that received a step and whose last step is less than the
\* timeout old.
ActiveBuilds ==
    {b \in builds : /\ b.status = IN_PROGRESS
                    /\ \E i \in DOMAIN steps : steps[i].build = b.id
                    /\ now - b.last_activity < opts.timeout}

C37_FreshAllocationNotReset ==
    [][(/\ opts.timeout > 0
        /\ last.op = "get_build" /\ last.ret # NoBuild
        /\ last'.op \in {"reset", "get_build"})
          => \E b \in builds' : b.id = last.ret /\ b.status = IN_PROGRESS]_vars

\* A build was reset by the reset_orphaned_builds() run that followed its
\* allocation.
C37_Witness ==
    /\ opts.timeout > 0
    /\ last.op = "reset" /\ last.orphans # {}
    /\ \A b \in builds : b.id \in last.orphans
          => b.status = PENDING /\ b.slave = None

\* C38: the disconnect of a session that a later session of the same name has
\* replaced leaves the registry entry of the name, the builds and the steps
\* as they are.
C38_SupersededDisconnectHarmless ==
    [][last'.op = "disconnect_superseded" =>
        /\ handlers'[last'.name].registered = handlers[last'.name].registered
        /\ builds' = builds
        /\ steps' = steps]_vars

\* The disconnect of a replaced session arrived while the session that
\* replaced it was registered and building.
C38_Witness ==
    /\ last.op = "disconnect_superseded"
    /\ last.removed
    /\ last.aborted # {}

-----------------------------------------------------------------------------
(* The master of release 0.4 *)

\* In release 0.4 _check_build_queue runs from the timer that every register
\* and every trigger check sets, and a build stays PENDING until the slave
\* reports that it started. chan[name] holds the exchanges with the slave
\* that are open: the handle_reply closures, each with its build object.
MaxOutstanding == 2

\* The rule loop of Master.register: re.match(pattern, value) without flags.
Matches04(platform, info) ==
    LET rules == FilterRules(platform.rules)
    IN  \A i \in DOMAIN rules :
          /\ HasKey(info, rules[i][1])
          /\ PatternCompiles(rules[i][2])
          /\ ReMatchCaseSensitive(rules[i][2], DictGet(info, rules[i][1]))

\* Two pending builds of configuration C for a platform both slaves match.
Init04 ==
    /\ opts = [build_all |-> TRUE, stabilize_wait |-> 0, timeout |-> 0,
               adjust_timestamps |-> FALSE]
    /\ repos = [c \in ConfigNames |-> PlainHistory(c)]
    /\ configs = [c \in ConfigNames |->
                     [active |-> (c = "C"), min_rev |-> 0, max_rev |-> 0,
                      recipe |-> [attr |-> {}, steps |-> RecipeSteps(c)]]]
    /\ platforms = { [id |-> 1, config |-> "C",
                      rules |-> << <<"family", <<".">>>> >>] }
    /\ builds = { [Build("C", 1, 3, 0) EXCEPT !.id = 1],
                  [Build("C", 1, 2, 0 - 1) EXCEPT !.id = 2] }
    /\ steps = << >>
    /\ nextId = 3
    /\ now = 0
    /\ pop = [p \in Populators |-> IdlePopulate]
    /\ adminOps = 0
    /\ handlers = [name \in SlaveNames |-> NoHandler]
    /\ slaves = [name \in SlaveNames |-> NoSession]
    /\ chan = [name \in SlaveNames |-> << >>]
    /\ alloc = [name \in SlaveNames |-> NoCall]
    /\ dispatch = NoRound
    /\ last = [op |-> "init"]

\* handle_msg for a register element, with Master.register: the handler joins
\* the slaves of the platforms it matches, or is refused when it matches none.
Register04(name) ==
    /\ ~handlers[name].registered
    /\ LET any_match == \E p \in platforms :
              /\ \E i \in DOMAIN BuildConfigSelect :
                    BuildConfigSelect[i] = p.config
              /\ Matches04(p, SlaveProps(name))
       IN  /\ handlers' = [handlers EXCEPT ![name].registered = any_match]
           /\ last' = [op |-> "register04", name |-> name, ok |-> any_match]
    /\ UNCHANGED <<slaves, chan, builds, steps, opts, configs, platforms,
                   repos, nextId, now, pop, adminOps, alloc, dispatch>>

\* _check_build_queue: the first pending build that has a slave of its
\* platform without a build in progress is initiated on such a slave (the
\* slaves of a platform are a set: the first one is any of them).
CheckBuildQueue04 ==
    LET pending == BuildSelectStatus(builds, PENDING)
        free(i) == {name \in SlaveNames :
            /\ handlers[name].registered
            /\ \E p \in platforms :
                  /\ p.id = pending[i].platform
                  /\ Matches04(p, SlaveProps(name))
            /\ InProgressOn(name) = {}}
    IN  \E i \in DOMAIN pending : \E name \in free(i) :
          /\ \A j \in 1..(i - 1) : free(j) = {}
          /\ Len(chan[name]) < MaxOutstanding
          /\ chan' = [chan EXCEPT ![name] =
                Append(@, [build |-> pending[i], phase |-> "initiated"])]
          /\ last' = [op |-> "check_build_queue", name |-> name,
                      build |-> pending[i].id]
          /\ UNCHANGED <<handlers, slaves, builds, steps, opts, configs,
                         platforms, repos, nextId, now, pop, adminOps, alloc,
                         dispatch>>

\* The handle_reply closures of send_initiation and send_snapshot, for the
\* exchange the slave answers next: an ERR ends the exchange, started makes
\* the build IN_PROGRESS (_build_started and build.update), completed and
\* aborted end it.
Reply04(name, type) ==
    /\ chan[name] # << >>
    /\ LET e == Head(chan[name])
           elem == Message(type, None, now * TicksPerSecond, 0, "success")
           started == [build_started(e.build, elem, 0) EXCEPT
                          !.slave = name,
                          !.slave_info = DictUpdate(@, SlaveProps(name)),
                          !.status = IN_PROGRESS]
       IN  CASE e.phase = "initiated" /\ type = "error" ->
                  /\ chan' = [chan EXCEPT ![name] = Tail(@)]
                  /\ UNCHANGED <<builds, steps>>
             [] e.phase = "initiated" /\ type = "started" ->
                  /\ chan' = [chan EXCEPT ![name] =
                        <<[build |-> started, phase |-> "started"]>>
                            \o Tail(@)]
                  /\ builds' = BuildUpdate(builds, started)
                  /\ UNCHANGED steps
             [] e.phase = "started" /\ type = "completed" ->
                  /\ chan' = [chan EXCEPT ![name] = Tail(@)]
                  /\ builds' = BuildUpdate(builds,
                                  build_completed(e.build, elem, 0))
                  /\ UNCHANGED steps
             [] e.phase = "started" /\ type = "aborted" ->
                  /\ chan' = [chan EXCEPT ![name] = Tail(@)]
                  /\ builds' = BuildUpdate(builds, build_aborted(e.build))
                  /\ steps' = BuildStepDelete(steps, e.build.id)
             [] OTHER -> FALSE
    /\ last' = [op |-> "reply04", name |-> name, type |-> type,
                build |-> Head(chan[name]).build.id]
    /\ UNCHANGED <<handlers, slaves, opts, configs, platforms, repos, nextId,
                   now, pop, adminOps, alloc, dispatch>>

\* handle_disconnect, with Master.unregister: the handler leaves the slaves
\* of every platform, and the first build in progress on a slave of its name
\* goes back to PENDING.
Disconnect04(name) ==
    /\ handlers[name].registered
    /\ handlers' = [handlers EXCEPT ![name].registered = FALSE]
    /\ chan' = [chan EXCEPT ![name] = << >>]
    /\ LET mine == BuildSelectStatus(InProgressOn(name), IN_PROGRESS)
       IN  IF mine = << >> THEN UNCHANGED <<builds, steps>>
           ELSE /\ builds' = BuildUpdate(builds, build_aborted(mine[1]))
                /\ steps' = BuildStepDelete(steps, mine[1].id)
    /\ last' = [op |-> "disconnect04", name |-> name]
    /\ UNCHANGED <<slaves, opts, configs, platforms, repos, nextId, now, pop,
                   adminOps, alloc, dispatch>>

Next04 ==
    \/ \E name \in SlaveNames : Register04(name)
    \/ CheckBuildQueue04
    \/ \E name \in SlaveNames,
          type \in {"error", "started", "completed", "aborted"} :
          Reply04(name, type)
    \/ \E name \in SlaveNames : Disconnect04(name)

Spec04 == Init04 /\ [][Next04]_vars

\* The exchanges of a slave that it has not answered yet.
Unanswered(name) ==
    {i \in DOMAIN chan[name] : chan[name][i].phase = "initiated"}

\* C39: in release 0.4 no build is initiated twice: while an initiation is
\* unanswered, the build is not initiated on another slave, and the slave is
\* not sent a second initiation.
C39_NoBuildInitiatedTwice ==
    /\ \A name \in SlaveNames : Cardinality(Unanswered(name)) <= 1
    /\ \A n1 \in SlaveNames, n2 \in SlaveNames :
          \A i \in Unanswered(n1), j \in Unanswered(n2) :
             chan[n1][i].build.id = chan[n2][j].build.id => n1 = n2

\* A second run of _check_build_queue has come while an initiation was
\* unanswered.
C39_Witness ==
    /\ last.op = "check_build_queue"
    /\ \E name \in SlaveNames : \E i \in Unanswered(name) :
          name # last.name \/ i < Len(chan[name])

-----------------------------------------------------------------------------
(* The builds get_build_for_slave leaves alone *)

\* The time of the last activity on a build in progress: the time of the call
\* when the call that has just returned allocated it, and the time the row
\* records otherwise.
LastActive(b) ==
    IF last.op = "get_build" /\ last.ret = b.id THEN now ELSE b.last_activity

\* The build is in progress and has reached the timeout at the time of the
\* call, counted from its last activity and from the time its row records.
PastTimeout(b) ==
    /\ opts.timeout # 0
    /\ b.status = IN_PROGRESS
    /\ now - LastActive(b) >= opts.timeout
PastRecordedTimeout(b) ==
    /\ opts.timeout # 0
    /\ b.status = IN_PROGRESS
    /\ now - b.last_activity >= opts.timeout

\* The store the loop over the pending builds reads.
AfterReset ==
    {IF PastRecordedTimeout(b) THEN ResetBuild(b) ELSE b : b \in builds}

\* C40: a get_build_for_slave() call adds no build, and leaves unchanged,
\* with their steps, the builds in SUCCESS or FAILURE, the IN_PROGRESS builds
\* that have not reached the timeout, and the PENDING builds that it neither
\* returns nor should delete.
C40_OtherBuildsUnchanged ==
    [][last'.op = "get_build" =>
        /\ {b.id : b \in builds'} \subseteq {b.id : b \in builds}
        /\ \A b \in builds :
              (\/ b.status \in {SUCCESS, FAILURE}
               \/ b.status = IN_PROGRESS /\ ~PastTimeout(b)
               \/ /\ b.status = PENDING
                  /\ b.id # last'.ret
                  /\ ~ShouldDeleteBuild(AfterReset, b))
              => /\ b \in builds'
                 /\ BuildStepSelect(steps', b.id)
                       = BuildStepSelect(steps, b.id)]_vars

\* The same with the timeout counted from the last_activity the row records:
\* the call changes no other build.
C40_UnchangedByRecordedActivity ==
    [][last'.op = "get_build" =>
        /\ {b.id : b \in builds'} \subseteq {b.id : b \in builds}
        /\ \A b \in builds :
              (\/ b.status \in {SUCCESS, FAILURE}
               \/ b.status = IN_PROGRESS /\ ~PastRecordedTimeout(b)
               \/ /\ b.status = PENDING
                  /\ b.id # last'.ret
                  /\ ~ShouldDeleteBuild(AfterReset, b))
              => /\ b \in builds'
                 /\ BuildStepSelect(steps', b.id)
                       = BuildStepSelect(steps, b.id)]_vars

\* A call allocated a build and left a build that has steps.
C40_Witness ==
    /\ last.op = "get_build"
    /\ last.ret # NoBuild
    /\ \E b \in builds :
          b.id # last.ret /\ BuildStepSelect(steps, b.id) # << >>

\* A call that returned no build left a pending build of another platform
\* and a build in progress that has not reached the timeout.
C40_WitnessKept ==
    /\ last.op = "get_build"
    /\ opts.timeout # 0
    /\ \E b \in builds : b.status = PENDING /\ b.id # last.ret
    /\ \E b \in builds : b.status = IN_PROGRESS /\ b.id # last.ret

====
